---- MODULE Spec2Model ----
(***************************************************************************)
(* Model of the `git list` engine of DevFlow (src/cmd/git_list.go):        *)
(*   - evaluateRepo: branch / upstream resolution, optional fetch, bounded *)
(*     breadth-first ancestor sets, ahead/behind counts, classification;   *)
(*   - gitListCmd.RunE: the worker pool, the job and result channels, the  *)
(*     streaming consumer and the aggregate (sorted) consumer.             *)
(* Two specifications share the module: SpecEval applies evaluateRepo to   *)
(* every repository of a bounded family, Spec runs a whole scan.           *)
(***************************************************************************)
EXTENDS Integers, Sequences, FiniteSets, TLC

(***************************************************************************)
(* Bounds of the model.                                                    *)
(***************************************************************************)
\* Number of commits in a repository's history; hashes are 1..NCommits.
NCommits == 4
\* git_list.go:238 sets the traversal bound to 2000.  The algorithm is
\* parametric in it; the model runs it with a small bound so that histories
\* both shorter and deeper than the bound are explored.
maxCommits == 2
\* Largest number of parents of a commit (2 = merge commits).
MaxParents == 2
\* Largest number of repositories a scan discovers.
MaxRepos == 3
\* Largest value of runtime.NumCPU().
MaxCPU == 2
\* Largest number of entries below the root of a directory tree, and the
\* largest depth of an entry.
MaxEntries == 6
MaxDepth == 4
\* Largest maxRetries argument of makeRequestWithRetry.
MaxRetriesArg == 3
\* Largest maxResults and startAtArg arguments of Search, and the largest
\* number of issues a query matches.
MaxResultsArg == 3
MaxStartAtArg == 2
MaxTotal == 5
\* Largest number of requests one call of Search is followed for.
MaxRequests == 4

Hash == 1..NCommits
\* The "no such reference" outcome of a reference lookup.
NoHash == 0

\* Value of a nil *gitRepoStatus.
NilStatus == [nil |-> TRUE]

\* The call did not return: a nil pointer was dereferenced and the runtime
\* panicked.
PanicStatus == [nil |-> TRUE, panic |-> TRUE]

(***************************************************************************)
(* Strings that the code formats and parses are sequences of "/"-separated *)
(* segments: "origin/main" is <<"origin", "main">>, "" is <<>>.            *)
(***************************************************************************)
\* fmt.Sprintf("%s/%s", a, b)
SprintfSlash(a, b) == a \o b

\* strings.SplitN(s, "/", 2) for a non-empty s: the text before the first "/"
\* and the rest.
SplitN2(s) == <<<<Head(s)>>, Tail(s)>>

\* plumbing.ReferenceName.Short for a branch reference: refs/heads/x -> x.
Short(ref) ==
    IF Len(ref) > 2 /\ ref[1] = "refs" /\ ref[2] \in {"heads", "remotes", "tags"}
    THEN SubSeq(ref, 3, Len(ref))
    ELSE ref

\* plumbing.NewRemoteReferenceName(remote, name)
NewRemoteReferenceName(remote, name) == <<"refs", "remotes">> \o remote \o name

(***************************************************************************)
(* A repository on disk, as evaluateRepo reads it.                         *)
(*   opens      git.PlainOpen succeeds                                     *)
(*   head       "branch": HEAD resolves to refs/heads/<branch>;            *)
(*              "detached": HEAD resolves to a commit;                     *)
(*              "unborn": r.Head() fails (branchRef is nil)                *)
(*   branch     short name of the branch HEAD points at                    *)
(*   tip        commit HEAD resolves to                                    *)
(*   cfgName, cfgRemote, cfgMerge   the [branch "<cfgName>"] section of    *)
(*              the configuration: remote = ..., merge = ...               *)
(*   cfgOk      r.Config() reads and parses the configuration file         *)
(*   remote     name of the one configured remote (<<>>: none)             *)
(*   fetchOk    a fetch of that remote succeeds                            *)
(*   fetchHash  commit the remote branch is at (written to the tracking    *)
(*              ref by a successful fetch; NoHash: the branch is gone)     *)
(*   trackRef, trackHash   the remote-tracking reference present locally   *)
(*              and the commit it points at (NoHash: no such reference)    *)
(*   parents    ordered parent hashes of each commit                       *)
(*   present    commits whose object is in the object store                *)
(*   worktree   "none" (bare), "clean", "dirty", "error" (Status fails)    *)
(*   stashLog, stashRef   what os.Stat finds at .git/logs/refs/stash and   *)
(*              .git/refs/stash: "absent", "empty", "file", "dir"          *)
(***************************************************************************)

\* r.Reference(name, true) for a remote-tracking reference name, after the
\* fetch step: a successful fetch of the remote that owns the reference has
\* moved it to fetchHash.
Reference(repo, fetched, name) ==
    IF fetched /\ repo.fetchHash # NoHash
          /\ name = NewRemoteReferenceName(repo.remote, Short(repo.cfgMerge))
    THEN repo.fetchHash
    ELSE IF name = repo.trackRef THEN repo.trackHash ELSE NoHash

\* git_list.go:179-189: the upstream of the current branch.
Upstream(repo) ==
    IF repo.head = "branch"
    THEN IF repo.cfgName = repo.branch /\ repo.cfgRemote # <<>> /\ repo.cfgMerge # <<>>
         THEN SprintfSlash(repo.cfgRemote, Short(repo.cfgMerge))
         ELSE <<>>
    ELSE <<>>

\* git_list.go:172-175
BranchName(repo) ==
    IF repo.head = "branch" THEN repo.branch ELSE "DETACHED"

\* git_list.go:193-200: a fetch is attempted when the call has come this
\* far, doFetch is set, an upstream is known and the remote named by the
\* text before the first "/" exists.
FetchAttempted(repo, doFetch) ==
    /\ repo.head = "branch" => repo.cfgOk
    /\ doFetch
    /\ Upstream(repo) # <<>>
    /\ SplitN2(Upstream(repo))[1] = repo.remote

FetchSucceeded(repo, doFetch) == FetchAttempted(repo, doFetch) /\ repo.fetchOk

\* git_list.go:203-207
Dirty(repo) == repo.worktree = "dirty"

\* git_list.go:208-214
Stashed(repo) ==
    \/ repo.stashLog \in {"empty", "file"}
    \/ repo.stashRef \in {"empty", "file"}

\* Fault variant of AncestorLoop: the loop test is `<=` instead of `<`, so
\* one commit more than the bound is visited.
RECURSIVE AncestorLoopOffByOne(_, _, _)
AncestorLoopOffByOne(repo, queue0, anc0) ==
    LET loop(queue, anc) ==
          IF Len(queue) > 0 /\ Cardinality(anc) <= maxCommits
          THEN LET h == Head(queue)
                   rest == Tail(queue)
               IN  IF h \in anc
                   THEN AncestorLoopOffByOne(repo, rest, anc)
                   ELSE IF h \notin repo.present
                        THEN AncestorLoopOffByOne(repo, rest, anc \cup {h})
                        ELSE AncestorLoopOffByOne(repo, rest \o repo.parents[h], anc \cup {h})
          ELSE anc
    IN  CHOOSE r \in {loop(queue, anc) : queue \in {queue0}, anc \in {anc0}} : TRUE

\* git_list.go:241-254 and 255-268: the bounded breadth-first traversal.
\* The queue and the set are computed once for each iteration.
RECURSIVE AncestorLoop(_, _, _)
AncestorLoop(repo, queue0, anc0) ==
    LET loop(queue, anc) ==
          IF Len(queue) > 0 /\ Cardinality(anc) < maxCommits
          THEN LET h == Head(queue)
                   rest == Tail(queue)
               IN  IF h \in anc
                   THEN AncestorLoop(repo, rest, anc)
                   ELSE IF h \notin repo.present
                        THEN AncestorLoop(repo, rest, anc \cup {h})
                        ELSE AncestorLoop(repo, rest \o repo.parents[h], anc \cup {h})
          ELSE anc
    IN  CHOOSE r \in {loop(queue, anc) : queue \in {queue0}, anc \in {anc0}} : TRUE

Ancestors(repo, tip) == AncestorLoop(repo, <<tip>>, {})

\* Fault variant of CountMissing: the two sets are taken in the wrong order.
CountMissingSwapped(a, b) == Cardinality({h \in b : h \notin a})

\* git_list.go:270-275 and 276-281: members of a that are not in b.
CountMissing(a, b) == Cardinality({h \in a : h \notin b})

\* Fault variant of ExcludeTip: the decrement is applied whether or not the
\* tip was seen on the other side.
ExcludeTipAlways(count, tipSeen) ==
    IF count - 1 < 0 THEN 0 ELSE count - 1

\* Fault variant of ExcludeTip: the clamp to 0 is missing.
ExcludeTipNoClamp(count, tipSeen) ==
    IF tipSeen THEN count - 1 ELSE count

\* git_list.go:282-294: the tip exclusion and the clamp.
ExcludeTip(count, tipSeen) ==
    LET c == IF tipSeen THEN count - 1 ELSE count
    IN  IF c < 0 THEN 0 ELSE c

\* Fault variant of Classify: a positive count decides the state without
\* the test that the other count is 0.
ClassifyOneCount(localHash, remoteHash, ahead, behind) ==
    IF localHash = remoteHash THEN "up-to-date"
    ELSE IF ahead > 0 THEN "ahead"
    ELSE IF behind > 0 THEN "behind"
    ELSE "diverged"

\* Fault variant of Classify: the two fast-forward states are exchanged.
ClassifyExchanged(localHash, remoteHash, ahead, behind) ==
    IF localHash = remoteHash THEN "up-to-date"
    ELSE IF ahead > 0 /\ behind = 0 THEN "behind"
    ELSE IF behind > 0 /\ ahead = 0 THEN "ahead"
    ELSE "diverged"

\* git_list.go:298-306
Classify(localHash, remoteHash, ahead, behind) ==
    IF localHash = remoteHash THEN "up-to-date"
    ELSE IF ahead > 0 /\ behind = 0 THEN "ahead"
    ELSE IF behind > 0 /\ ahead = 0 THEN "behind"
    ELSE "diverged"

\* git_list.go:227-235: the commit of the upstream's remote-tracking
\* reference, NoHash when it does not resolve.
RemoteHash(repo, doFetch) ==
    LET remoteParts == SplitN2(Upstream(repo))
        remoteRefName == NewRemoteReferenceName(remoteParts[1], remoteParts[2])
    IN  Reference(repo, FetchSucceeded(repo, doFetch), remoteRefName)

\* git_list.go:170-308: evaluateRepo once the repository is open.
evaluateOpened(path, repo, doFetch) ==
    LET branchName == BranchName(repo)
        upstream == Upstream(repo)
        status == [nil |-> FALSE, Path |-> path, Branch |-> branchName,
                   State |-> "", Dirty |-> Dirty(repo), Stashed |-> Stashed(repo),
                   Ahead |-> 0, Behind |-> 0, Upstream |-> upstream]
    IN  \* git_list.go:181-182: `cfg, _ := r.Config()` leaves cfg nil when
        \* the configuration cannot be read, and cfg.Branches dereferences it
        IF repo.head = "branch" /\ ~repo.cfgOk
        THEN PanicStatus
        ELSE IF upstream = <<>> /\ branchName = "DETACHED"
        THEN [status EXCEPT !.State = "detached"]
        ELSE IF upstream = <<>>
        THEN [status EXCEPT !.State = "no-upstream"]
        ELSE
        LET localHash == repo.tip
            remoteHash == RemoteHash(repo, doFetch)
        IN  IF remoteHash = NoHash
            THEN [status EXCEPT !.State = "no-upstream"]
            ELSE
            LET localAnc == Ancestors(repo, localHash)
                remoteAnc == Ancestors(repo, remoteHash)
                ahead == ExcludeTip(CountMissing(localAnc, remoteAnc),
                                    localHash \in remoteAnc)
                behind == ExcludeTip(CountMissing(remoteAnc, localAnc),
                                     remoteHash \in localAnc)
            IN  [status EXCEPT !.Ahead = ahead, !.Behind = behind,
                               !.State = Classify(localHash, remoteHash, ahead, behind)]

\* Fault variant of evaluateRepo: the error of git.PlainOpen is ignored and
\* a record is produced for a directory that is no repository.
evaluateRepoOpenIgnored(path, repo, doFetch) ==
    evaluateOpened(path, repo, doFetch)

\* git_list.go:164-308
evaluateRepo(path, repo, doFetch) ==
    IF ~repo.opens THEN NilStatus
    ELSE evaluateOpened(path, repo, doFetch)

(***************************************************************************)
(* Exact ancestry, for stating what the approximation is compared with:    *)
(* the commits reachable from a tip over the parent links, unbounded.      *)
(***************************************************************************)
RECURSIVE Reach(_, _, _)
Reach(repo, frontier, seen) ==
    IF frontier = {} THEN seen
    ELSE LET next == UNION {{repo.parents[h][i] : i \in 1..Len(repo.parents[h])}
                            : h \in frontier}
         IN  Reach(repo, next \ (seen \cup frontier), seen \cup frontier)

TrueAncestors(repo, tip) == Reach(repo, {tip}, {})

\* Commits reachable from a and not from b.
Unique(repo, a, b) == TrueAncestors(repo, a) \ TrueAncestors(repo, b)

\* The classification that the exact ancestor sets give.
ExactState(repo, localHash, remoteHash) ==
    IF localHash = remoteHash THEN "up-to-date"
    ELSE IF remoteHash \in TrueAncestors(repo, localHash) THEN "ahead"
    ELSE IF localHash \in TrueAncestors(repo, remoteHash) THEN "behind"
    ELSE "diverged"

(***************************************************************************)
(* The repositories evaluateRepo is applied to.                            *)
(***************************************************************************)
\* Ordered lists of at most MaxParents distinct earlier commits.
ParentLists(c) ==
    {ps \in UNION {[1..n -> 1..(c - 1)] : n \in 0..MaxParents} :
        \A i, j \in 1..Len(ps) : i # j => ps[i] # ps[j]}

\* Every history over the commits 1..n: parents precede their children.
RECURSIVE HistoriesUpTo(_)
HistoriesUpTo(n) ==
    IF n = 0 THEN {<<>>}
    ELSE {Append(f, ps) : f \in HistoriesUpTo(n - 1), ps \in ParentLists(n)}

\* A single line of commits 1 <- 2 <- ... <- NCommits.
LinearHistory == [c \in Hash |-> IF c = 1 THEN <<>> ELSE <<c - 1>>]

RefsHeadsMain == <<"refs", "heads", "main">>
Origin == <<"origin">>
\* A remote whose name contains a "/".
TeamFork == <<"team", "fork">>

\* A branch `main` tracking origin/main, everything in place.
TrackingRepo ==
    [opens |-> TRUE, head |-> "branch", branch |-> "main", tip |-> NCommits,
     cfgName |-> "main", cfgRemote |-> Origin, cfgMerge |-> RefsHeadsMain,
     cfgOk |-> TRUE, remote |-> Origin, fetchOk |-> TRUE, fetchHash |-> NoHash,
     trackRef |-> NewRemoteReferenceName(Origin, <<"main">>), trackHash |-> NCommits,
     parents |-> LinearHistory, present |-> Hash,
     worktree |-> "clean", stashLog |-> "absent", stashRef |-> "absent"]

\* A branch that tracks origin/main over the history f, with the local tip l
\* and the upstream tip u.
HistoryRepo(f, l, u) ==
    [TrackingRepo EXCEPT !.parents = f, !.tip = l, !.trackHash = u]

\* Every HEAD and tracking configuration, over a linear history.
ConfigRepos ==
    {[TrackingRepo EXCEPT !.head = hd, !.branch = b, !.tip = l,
                          !.cfgName = cn, !.cfgRemote = cr, !.cfgMerge = cm,
                          !.remote = rm, !.fetchOk = fo, !.fetchHash = fh,
                          !.trackHash = u, !.worktree = wt] :
        hd \in {"branch", "detached", "unborn"}, b \in {"main", "DETACHED"},
        l \in {2, NCommits}, cn \in {"main", "DETACHED"},
        cr \in {<<>>, Origin, TeamFork}, cm \in {<<>>, RefsHeadsMain},
        rm \in {<<>>, Origin, TeamFork}, fo \in BOOLEAN, fh \in {NoHash, 1},
        u \in {NoHash, 2, NCommits - 1}, wt \in {"clean", "dirty"}}

\* Every state of the working tree and of the two stash files, for a branch
\* whose remote-tracking reference resolves or not.
WorktreeRepos ==
    {[TrackingRepo EXCEPT !.worktree = wt, !.stashLog = sl, !.stashRef = sr,
                          !.trackHash = u] :
        wt \in {"none", "clean", "dirty", "error"},
        sl \in {"absent", "empty", "file", "dir"},
        sr \in {"absent", "empty", "file", "dir"},
        u \in {NoHash, NCommits - 1, NCommits}}

\* Repositories that open and whose configuration file cannot be read or
\* parsed, for every HEAD.
ConfigErrorRepos ==
    {[TrackingRepo EXCEPT !.cfgOk = FALSE, !.head = hd, !.worktree = wt] :
        hd \in {"branch", "detached", "unborn"}, wt \in {"clean", "dirty"}}

\* A directory with a .git that does not open as a repository.
BrokenRepo == [TrackingRepo EXCEPT !.opens = FALSE]


(***************************************************************************)
(* State of one call of evaluateRepo (SpecEval).                                     *)
(***************************************************************************)
VARIABLES
    repo,      \* the repository evaluateRepo is called on
    doFetch,   \* its doFetch argument
    st,        \* the value it returned
    epc        \* "call" before the call, "done" after it

\* State of one of the two ancestor traversals (SpecTraverse).
VARIABLES
    bfsTip,     \* the hash the traversal starts from
    bfsMax,     \* `maxCommits`, the bound of the traversal
    bfsQueue,   \* `queue`
    bfsAnc,     \* the keys of `localAnc` or `remoteAnc`
    bfsInserts, \* the hashes inserted into the map, in order
    bfsPc       \* "loop" while the for statement runs, "done" after it

tvars == <<bfsTip, bfsMax, bfsQueue, bfsAnc, bfsInserts, bfsPc>>

evars == <<repo, doFetch, st, epc, tvars>>

\* No traversal is being run step by step.
TraverseIdle ==
    /\ bfsTip = NoHash /\ bfsMax = maxCommits /\ bfsQueue = <<>> /\ bfsAnc = {} /\ bfsInserts = <<>>
    /\ bfsPc = "idle"

\* evaluateRepo is not being called.
EvalIdle ==
    /\ repo = BrokenRepo /\ doFetch = FALSE /\ st = NilStatus /\ epc = "idle"
    /\ TraverseIdle

(***************************************************************************)
(* State of one call of the Bitbucket client's makeRequestWithRetry        *)
(* (SpecBitbucket).                                                        *)
(***************************************************************************)
VARIABLES
    maxRetries,   \* the maxRetries argument
    body,         \* the body argument: "nil", "json" (it marshals) or
                  \* "unmarshalable" (json.Marshal fails)
    rateLimiter,  \* c.rateLimiter: "nil" or "chan"
    tokens,       \* number of values in the rateLimiter channel
    bpc,          \* where the call is
    attempt,      \* the loop variable
    sent,         \* outcome of every c.httpClient.Do so far, in order
    slept,        \* the waits handed to time.Sleep, in seconds
    resp,         \* status of the response returned (NoResponse: nil)
    err           \* the error returned ("nil": none)

bvars == <<maxRetries, body, rateLimiter, tokens, bpc, attempt, sent, slept,
           resp, err>>

\* A nil *http.Response.
NoResponse == 0
\* The outcome of a c.httpClient.Do that returns an error.
TransportError == 1

BitbucketIdle ==
    /\ maxRetries = 0 /\ body = "nil" /\ rateLimiter = "nil" /\ tokens = 0
    /\ bpc = "idle" /\ attempt = 0 /\ sent = <<>> /\ slept = <<>>
    /\ resp = NoResponse /\ err = "nil"

(***************************************************************************)
(* State of one call of the Jira client's CreateIssue (SpecJiraCreate) and *)
(* of one call of its Search (SpecJiraSearch).                             *)
(***************************************************************************)
VARIABLES
    opts,        \* the optional custom fields that opts sets
    fields,      \* the custom fields in the map `fields`
    cpc,         \* where CreateIssue is
    posts,       \* the custom fields of every POST made, in order
    responses,   \* what every POST gave, in order
    created      \* what CreateIssue returned: "issue" or the error

VARIABLES
    maxResults,       \* the maxResults argument
    startAtArg,       \* the startAtArg argument
    total,            \* number of issues the query matches on the server
    metadata,         \* the server fills startAt, maxResults and total in
                      \* its responses
    paging,           \* "startAt": the server sends no nextPageToken;
                      \* "token": it may send one, and pages of any size
    spc,              \* where Search is
    startAt,          \* the local startAt
    token,            \* the local `token`: the offset the token stands for
    isLast,           \* searchResp.IsLast
    searchCollected,  \* the slice `collected`
    requests,         \* the parameters of every GET made, in order
    pages,            \* number of issues in every page received, in order
    searched          \* what Search returned: "issues" or the error

jcvars == <<opts, fields, cpc, posts, responses, created>>
jsvars == <<maxResults, startAtArg, total, metadata, paging, token, isLast, spc, startAt, searchCollected,
            requests, pages, searched>>
jvars == <<jcvars, jsvars>>

JiraCreateIdle ==
    /\ opts = {} /\ fields = {} /\ cpc = "idle" /\ posts = <<>>
    /\ responses = <<>> /\ created = "running"

\* The empty nextPageToken, and the startAt of a request that has none.
NoToken == 0 - 1

JiraSearchIdle ==
    /\ maxResults = 0 /\ startAtArg = 0 /\ total = 0 /\ metadata = TRUE
    /\ paging = "startAt" /\ token = NoToken /\ isLast = FALSE
    /\ spc = "idle"
    /\ startAt = 0 /\ searchCollected = <<>> /\ requests = <<>>
    /\ pages = <<>> /\ searched = "running"

JiraIdle == JiraCreateIdle /\ JiraSearchIdle

\* The variables of the HTTP clients.
cvars == <<bvars, jvars>>

(***************************************************************************)
(* Paths.  A path below the scan root is the sequence of its directory     *)
(* names; a name and a printed path are sequences of byte values, compared *)
(* the way Go compares strings.                                            *)
(***************************************************************************)
Dot == 46
Slash == 47
NameA == <<97>>
NameB == <<98>>
NameAdashB == <<97, 45, 98>>
NameC == <<99>>
\* ".git" and ".."
DotGit == <<46, 103, 105, 116>>
DotDot == <<46, 46>>

\* filepath.Rel(root, path) for a path below root, names joined by "/".
RECURSIVE JoinSlash(_)
JoinSlash(names) ==
    IF Len(names) = 0 THEN <<>>
    ELSE IF Len(names) = 1 THEN names[1]
    ELSE names[1] \o <<Slash>> \o JoinSlash(Tail(names))

\* git_list.go:316-322
relativePath(names) ==
    IF JoinSlash(names) = <<>> THEN <<Dot>> ELSE JoinSlash(names)

\* Go's s < t on strings: bytewise lexicographic order.
RECURSIVE StringLess(_, _)
StringLess(s, t) ==
    IF Len(t) = 0 THEN FALSE
    ELSE IF Len(s) = 0 THEN TRUE
    ELSE IF s[1] < t[1] THEN TRUE
    ELSE IF s[1] > t[1] THEN FALSE
    ELSE StringLess(Tail(s), Tail(t))

\* git_list.go:118: the comparison handed to sort.Slice.
PathLess(a, b) == StringLess(a.Path, b.Path)

\* sort.Slice on a short slice is an insertion sort: each element moves left
\* while it is less than its left neighbour.
RECURSIVE InsertLeft(_, _)
InsertLeft(sorted, x) ==
    IF Len(sorted) > 0 /\ PathLess(x, sorted[Len(sorted)])
    THEN Append(InsertLeft(SubSeq(sorted, 1, Len(sorted) - 1), x), sorted[Len(sorted)])
    ELSE Append(sorted, x)

\* Fault variant of SortSlice: the slice is left in arrival order.
SortSliceOmitted(xs) == xs

RECURSIVE SortSlice(_)
SortSlice(xs) ==
    IF Len(xs) = 0 THEN <<>>
    ELSE InsertLeft(SortSlice(SubSeq(xs, 1, Len(xs) - 1)), xs[Len(xs)])

(***************************************************************************)
(* The directory tree below the scan root.                                 *)
(*   rootName   base name of the root directory                            *)
(*   entries    kind of each path that exists, the root being <<>>:        *)
(*              "dir"     a directory that can be read;                    *)
(*              "noread"  a directory whose listing fails;                 *)
(*              "file"    anything that is not a directory;                *)
(*              "absent"  (root only) the root does not exist              *)
(* filepath.WalkDir calls the function of git_list.go:150-160 on the root  *)
(* and then, for a directory, on its entries in the order of their names.  *)
(***************************************************************************)
\* d.Name()
EntryName(t, path) == IF path = <<>> THEN t.rootName ELSE path[Len(path)]

\* Fault variant of IsDir: a regular file counts as a directory.
IsDirOrFile(t, path) == t.entries[path] \in {"dir", "noread", "file"}

\* d.IsDir()
IsDir(t, path) == t.entries[path] \in {"dir", "noread"}

\* filepath.Dir(path), as a path relative to the root.
Dir(path) ==
    IF path = <<>> THEN <<DotDot>> ELSE SubSeq(path, 1, Len(path) - 1)

Children(t, path) ==
    {q \in DOMAIN t.entries : Len(q) = Len(path) + 1 /\ SubSeq(q, 1, Len(path)) = path}

\* os.ReadDir: the entries of a directory sorted by file name.
RECURSIVE SortedByName(_)
SortedByName(paths) ==
    IF paths = {} THEN <<>>
    ELSE LET first == CHOOSE q \in paths :
                        \A r \in paths \ {q} : StringLess(q[Len(q)], r[Len(r)])
         IN  <<first>> \o SortedByName(paths \ {first})

\* Fault variant of walkDir: filepath.SkipDir is not returned, the walk goes
\* on into the .git directory.
RECURSIVE walkDirNoSkip(_, _, _)
walkDirNoSkip(t, todo, repos) ==
    LET visit(pending) ==
          IF pending = <<>> THEN [repos |-> repos, err |-> FALSE]
          ELSE LET path == Head(pending)
                   found == IF IsDir(t, path) /\ EntryName(t, path) = DotGit
                            THEN Append(repos, Dir(path)) ELSE repos
               IN  IF t.entries[path] = "absent" THEN [repos |-> repos, err |-> TRUE]
                   ELSE IF ~IsDir(t, path)
                   THEN walkDirNoSkip(t, Tail(pending), found)
                   ELSE IF t.entries[path] = "noread"
                   THEN [repos |-> found, err |-> TRUE]
                   ELSE walkDirNoSkip(t, SortedByName(Children(t, path)) \o Tail(pending), found)
    IN  CHOOSE r \in {visit(pending) : pending \in {todo}} : TRUE

\* git_list.go:150-160 under filepath.WalkDir: `todo` holds the paths still
\* to visit, in order; `repos` is the slice being appended to.  The list of
\* paths is computed once for each visit.
RECURSIVE walkDir(_, _, _)
walkDir(t, todo, repos) ==
    LET visit(pending) ==
          IF pending = <<>> THEN [repos |-> repos, err |-> FALSE]
          ELSE LET path == Head(pending)
               IN  \* the root cannot be examined: the callback gets the error
                   IF t.entries[path] = "absent" THEN [repos |-> repos, err |-> TRUE]
                   \* git_list.go:154-158
                   ELSE IF IsDir(t, path) /\ EntryName(t, path) = DotGit
                   THEN walkDir(t, Tail(pending), Append(repos, Dir(path)))
                   \* git_list.go:159, not a directory: nothing below it
                   ELSE IF ~IsDir(t, path)
                   THEN walkDir(t, Tail(pending), repos)
                   \* the listing fails: the callback gets the error (151-153)
                   ELSE IF t.entries[path] = "noread"
                   THEN [repos |-> repos, err |-> TRUE]
                   ELSE walkDir(t, SortedByName(Children(t, path)) \o Tail(pending), repos)
    IN  CHOOSE r \in {visit(pending) : pending \in {todo}} : TRUE

\* Fault variant of discoverGitRepos, see walkDirNoSkip.
discoverGitReposNoSkipDir(t) == walkDirNoSkip(t, << <<>> >>, <<>>)

\* git_list.go:148-162
discoverGitRepos(t) == walkDir(t, << <<>> >>, <<>>)

(***************************************************************************)
(* The directory tree of a scan: the repository roots in the order         *)
(* filepath.WalkDir meets them, and what each holds.                       *)
(***************************************************************************)
WalkOrder == << <<>>, <<NameA, NameB>>, <<NameAdashB>>, <<NameB>> >>

\* The repository found at each of the four places when it opens.
RepoAt(i) ==
    IF i = 1 THEN TrackingRepo
    ELSE IF i = 2 THEN [TrackingRepo EXCEPT !.head = "detached"]
    ELSE IF i = 3 THEN [TrackingRepo EXCEPT !.trackHash = NCommits - 1,
                                            !.worktree = "dirty"]
    ELSE [TrackingRepo EXCEPT !.cfgRemote = <<>>]

\* The strictly increasing index lists: the subsets of WalkOrder, in order.
RECURSIVE Increasing(_, _)
Increasing(from, n) ==
    IF n = 0 THEN {<<>>}
    ELSE UNION {{<<i>> \o rest : rest \in Increasing(i + 1, n - 1)}
                : i \in from..Len(WalkOrder)}

\* The repositories below a root, in the order discoverGitRepos returns
\* them, with what is behind each path.
Discoveries ==
    UNION {{[k \in 1..n |-> [path |-> WalkOrder[idx[k]],
                             repo |-> IF ok[k] THEN RepoAt(idx[k]) ELSE BrokenRepo]]
            : idx \in Increasing(1, n), ok \in [1..n -> BOOLEAN]}
           : n \in 0..MaxRepos}

\* The non-empty prefixes of a path.
Prefixes(path) == {SubSeq(path, 1, n) : n \in 1..Len(path)}

\* The tree that holds the repositories of d and, when extra is not
\* "absent", one more entry `c` of that kind, which sorts after every
\* repository of WalkOrder.
TreeOf(d, extra) ==
    LET places == {d[k].path : k \in 1..Len(d)}
        dirs == UNION {Prefixes(q) : q \in places}
        gits == {Append(q, DotGit) : q \in places}
        more == IF extra = "absent" THEN {} ELSE {<<NameC>>}
    IN  [rootName |-> NameA,
         entries |-> [q \in {<<>>} \cup dirs \cup gits \cup more |->
                        IF q \in more THEN extra ELSE "dir"]]

\* A root that holds nothing: a directory, a directory that cannot be
\* listed, a file, or nothing at all.
BareRoot(kind) == [rootName |-> NameA, entries |-> [q \in {<<>>} |-> kind]]

\* What git.PlainOpen finds at each repository root of d.
DiskOf(d) ==
    [q \in {d[k].path : k \in 1..Len(d)} |->
        d[CHOOSE k \in 1..Len(d) : d[k].path = q].repo]

(***************************************************************************)
(* Spec: gitListCmd.RunE.                                                  *)
(***************************************************************************)
VARIABLES
    tree,           \* the directory tree below the root
    disk,           \* the repository behind each repository root
    writers,        \* the goroutines that have written a result line
    repos,          \* the discovered repositories (git_list.go:67)
    gitListNoFetch, \* --no-fetch
    gitListJSON,    \* --json
    gitListTabular, \* --tabular
    workerCount,    \* git_list.go:72-75
    mainPc,         \* where the command's goroutine is
    feedIdx,        \* index of the next repository the feed loop sends
    jobsClosed,     \* close(jobs) has run
    wpc,            \* where each worker is: "recv", "eval", "send", "exit"
    wjob,           \* index of the repository a worker holds
    wst,            \* the status a worker is about to send
    wg,             \* the WaitGroup counter
    results,        \* the content of the results channel
    resultsClosed,  \* number of times close(results) has run
    closerPc,       \* the goroutine of git_list.go:100-103
    collected,      \* the slice `stream` or `slices`
    printed,        \* the lines written by fmt.Printf (git_list.go:107)
    returned,       \* what RunE returned once mainPc = "done": "nil" or
                    \* the error
    evaluated,      \* indices of the repositories evaluateRepo was called on
    panicked        \* a send on, or a close of, a closed channel happened

fsvars == <<tree, disk>>

svars == <<fsvars, writers, repos, gitListNoFetch, gitListJSON, gitListTabular, workerCount,
           mainPc, feedIdx, jobsClosed, wpc, wjob, wst, wg, results,
           resultsClosed, closerPc, collected, printed, returned, evaluated,
           panicked>>

vars == <<svars, evars, cvars>>

\* The worker goroutines are numbered from 1; the goroutine that runs RunE
\* is number 0.
Workers == 1..workerCount
MainGoroutine == 0

\* git_list.go:98
Streaming == ~gitListTabular /\ ~gitListJSON

\* git_list.go:72-75
WorkerCountFor(numCPU) == IF numCPU < 2 THEN 2 ELSE numCPU

\* Fault variant of ResultsCap: the results channel holds one item fewer.
ResultsCapShort == IF Len(repos) > 0 THEN Len(repos) - 1 ELSE 0

\* git_list.go:77: the capacity of the results channel.
ResultsCap == Len(repos)

\* git_list.go:107
Line(r) == <<r.Path, r.Branch, r.State>>

\* git.PlainOpen on a discovered path.
RepoOn(path) == IF path \in DOMAIN disk THEN disk[path] ELSE BrokenRepo

Init ==
    /\ \/ \E d \in Discoveries, extra \in {"absent", "noread"} :
             tree = TreeOf(d, extra) /\ disk = DiskOf(d)
       \/ \E kind \in {"noread", "file", "absent"} :
             tree = BareRoot(kind) /\ disk = <<>>
    /\ writers = {}
    /\ repos = <<>>
    /\ gitListNoFetch \in BOOLEAN
    /\ gitListJSON \in BOOLEAN
    /\ gitListTabular \in BOOLEAN
    /\ workerCount \in {WorkerCountFor(n) : n \in 1..MaxCPU}
    /\ mainPc = "discover"
    /\ feedIdx = 1
    /\ jobsClosed = FALSE
    /\ wpc = [w \in Workers |-> "unstarted"]
    /\ wjob = [w \in Workers |-> 0]
    /\ wst = [w \in Workers |-> NilStatus]
    /\ wg = 0
    /\ results = <<>>
    /\ resultsClosed = 0
    /\ closerPc = "idle"
    /\ collected = <<>>
    /\ printed = <<>>
    /\ returned = "running"
    /\ evaluated = {}
    /\ panicked = FALSE
    /\ EvalIdle
    /\ BitbucketIdle
    /\ JiraIdle

\* Fault variant of Discover: the error of discoverGitRepos is dropped and
\* the scan goes on with what was found.
DiscoverErrorDropped ==
    /\ mainPc = "discover"
    /\ LET found == discoverGitRepos(tree)
       IN  IF tree.entries[<<>>] = "absent"
           THEN /\ returned' = "stat path" /\ mainPc' = "done"
                /\ UNCHANGED <<repos, wpc, wg>>
           ELSE IF ~IsDir(tree, <<>>)
           THEN /\ returned' = "path is not a directory" /\ mainPc' = "done"
                /\ UNCHANGED <<repos, wpc, wg>>
           ELSE /\ repos' = [k \in 1..Len(found.repos) |->
                               [path |-> found.repos[k], repo |-> RepoOn(found.repos[k])]]
                /\ mainPc' = "feed"
                /\ wpc' = [w \in Workers |-> "recv"]
                /\ wg' = workerCount
                /\ UNCHANGED returned
    /\ UNCHANGED <<fsvars, writers, gitListNoFetch, gitListJSON, gitListTabular,
                   workerCount, feedIdx, jobsClosed, wjob, wst, results,
                   resultsClosed, closerPc, collected, printed, evaluated,
                   panicked, evars, cvars>>

\* git_list.go:59-91: the root is examined, the tree is walked and, unless
\* an error is returned, the workers are started.
Discover ==
    /\ mainPc = "discover"
    /\ LET found == discoverGitRepos(tree)
       IN  IF tree.entries[<<>>] = "absent"
           THEN /\ returned' = "stat path" /\ mainPc' = "done"
                /\ UNCHANGED <<repos, wpc, wg>>
           ELSE IF ~IsDir(tree, <<>>)
           THEN /\ returned' = "path is not a directory" /\ mainPc' = "done"
                /\ UNCHANGED <<repos, wpc, wg>>
           ELSE /\ repos' = [k \in 1..Len(found.repos) |->
                               [path |-> found.repos[k], repo |-> RepoOn(found.repos[k])]]
                /\ IF found.err
                   THEN /\ returned' = "walk" /\ mainPc' = "done"
                        /\ UNCHANGED <<wpc, wg>>
                   ELSE /\ mainPc' = "feed"
                        /\ wpc' = [w \in Workers |-> "recv"]
                        /\ wg' = workerCount
                        /\ UNCHANGED returned
    /\ UNCHANGED <<fsvars, writers, gitListNoFetch, gitListJSON, gitListTabular,
                   workerCount, feedIdx, jobsClosed, wjob, wst, results,
                   resultsClosed, closerPc, collected, printed, evaluated,
                   panicked, evars, cvars>>

\* git_list.go:92-94 with 84: `jobs <- r` meets a worker's receive.
FeedJob(w) ==
    /\ mainPc = "feed"
    /\ feedIdx <= Len(repos)
    /\ wpc[w] = "recv"
    /\ wjob' = [wjob EXCEPT ![w] = feedIdx]
    /\ wpc' = [wpc EXCEPT ![w] = "eval"]
    /\ feedIdx' = feedIdx + 1
    /\ UNCHANGED <<fsvars, writers, repos, gitListNoFetch, gitListJSON, gitListTabular, workerCount,
                   mainPc, jobsClosed, wst, wg, results, resultsClosed, closerPc,
                   collected, printed, returned, evaluated, panicked, evars, cvars>>

\* git_list.go:95-103 and 112: close(jobs), then either start the closing
\* goroutine and enter the streaming loop, or wait for the workers.
CloseJobs ==
    /\ mainPc = "feed"
    /\ feedIdx > Len(repos)
    /\ jobsClosed' = TRUE
    /\ IF Streaming
       THEN mainPc' = "stream" /\ closerPc' = "wait"
       ELSE mainPc' = "wait" /\ closerPc' = closerPc
    /\ UNCHANGED <<fsvars, writers, repos, gitListNoFetch, gitListJSON, gitListTabular, workerCount,
                   feedIdx, wpc, wjob, wst, wg, results, resultsClosed,
                   collected, printed, returned, evaluated, panicked, evars, cvars>>

\* git_list.go:85-86: the worker evaluates the repository it received.
WorkerEvaluate(w) ==
    /\ wpc[w] = "eval"
    /\ LET d == repos[wjob[w]]
           s == evaluateRepo(relativePath(d.path), d.repo, ~gitListNoFetch)
       IN  /\ wst' = [wst EXCEPT ![w] = s]
           /\ wpc' = [wpc EXCEPT ![w] = IF s.nil THEN "recv" ELSE "send"]
    /\ evaluated' = evaluated \cup {wjob[w]}
    /\ UNCHANGED <<fsvars, writers, repos, gitListNoFetch, gitListJSON, gitListTabular, workerCount,
                   mainPc, feedIdx, jobsClosed, wjob, wg, results, resultsClosed,
                   closerPc, collected, printed, returned, panicked, evars, cvars>>

\* Fault variant of WorkerSend: the worker prints the line of its result
\* itself before it sends the result.
WorkerSendPrints(w) ==
    /\ wpc[w] = "send"
    /\ Len(results) < ResultsCap
    /\ results' = Append(results, wst[w])
    /\ printed' = Append(printed, Line(wst[w]))
    /\ writers' = writers \cup {w}
    /\ panicked' = (panicked \/ resultsClosed > 0)
    /\ wpc' = [wpc EXCEPT ![w] = "recv"]
    /\ UNCHANGED <<fsvars, repos, gitListNoFetch, gitListJSON, gitListTabular,
                   workerCount, mainPc, feedIdx, jobsClosed, wjob, wst, wg,
                   resultsClosed, closerPc, collected, returned, evaluated, evars, cvars>>

\* git_list.go:87: `results <- st`; the send blocks while the buffer is
\* full and panics on a closed channel.
WorkerSend(w) ==
    /\ wpc[w] = "send"
    /\ Len(results) < ResultsCap
    /\ results' = Append(results, wst[w])
    /\ panicked' = (panicked \/ resultsClosed > 0)
    /\ wpc' = [wpc EXCEPT ![w] = "recv"]
    /\ UNCHANGED <<fsvars, writers, repos, gitListNoFetch, gitListJSON, gitListTabular, workerCount,
                   mainPc, feedIdx, jobsClosed, wjob, wst, wg, resultsClosed,
                   closerPc, collected, printed, returned, evaluated, evars, cvars>>

\* git_list.go:83-84: the range over jobs ends once jobs is closed, and the
\* deferred wg.Done() runs.
WorkerExit(w) ==
    /\ wpc[w] = "recv"
    /\ jobsClosed
    /\ wpc' = [wpc EXCEPT ![w] = "exit"]
    /\ wg' = wg - 1
    /\ UNCHANGED <<fsvars, writers, repos, gitListNoFetch, gitListJSON, gitListTabular, workerCount,
                   mainPc, feedIdx, jobsClosed, wjob, wst, results, resultsClosed,
                   closerPc, collected, printed, returned, evaluated, panicked, evars, cvars>>

\* Fault variant of CloserClose: the goroutine closes the channel without
\* waiting for the workers.
CloserCloseNoWait ==
    /\ closerPc = "wait"
    /\ panicked' = (panicked \/ resultsClosed > 0)
    /\ resultsClosed' = resultsClosed + 1
    /\ closerPc' = "done"
    /\ UNCHANGED <<fsvars, writers, repos, gitListNoFetch, gitListJSON, gitListTabular, workerCount,
                   mainPc, feedIdx, jobsClosed, wpc, wjob, wst, wg, results,
                   collected, printed, returned, evaluated, evars, cvars>>

\* git_list.go:100-103: wg.Wait() returns, close(results).
CloserClose ==
    /\ closerPc = "wait"
    /\ wg = 0
    /\ panicked' = (panicked \/ resultsClosed > 0)
    /\ resultsClosed' = resultsClosed + 1
    /\ closerPc' = "done"
    /\ UNCHANGED <<fsvars, writers, repos, gitListNoFetch, gitListJSON, gitListTabular, workerCount,
                   mainPc, feedIdx, jobsClosed, wpc, wjob, wst, wg, results,
                   collected, printed, returned, evaluated, evars, cvars>>

\* git_list.go:105-108: one iteration of the streaming loop.  fmt.Printf
\* formats the line and hands it to the standard output in one write.
StreamEmit ==
    /\ mainPc = "stream"
    /\ Len(results) > 0
    /\ collected' = Append(collected, Head(results))
    /\ printed' = Append(printed, Line(Head(results)))
    /\ writers' = writers \cup {MainGoroutine}
    /\ results' = Tail(results)
    /\ UNCHANGED <<fsvars, repos, gitListNoFetch, gitListJSON, gitListTabular, workerCount,
                   mainPc, feedIdx, jobsClosed, wpc, wjob, wst, wg, resultsClosed,
                   closerPc, returned, evaluated, panicked, evars, cvars>>

\* Fault variant of StreamReturn: the loop ends as soon as the channel is
\* empty, without waiting for it to be closed.
StreamReturnEarly ==
    /\ mainPc = "stream"
    /\ Len(results) = 0
    /\ mainPc' = "done"
    /\ returned' = "nil"
    /\ UNCHANGED <<fsvars, writers, repos, gitListNoFetch, gitListJSON, gitListTabular, workerCount,
                   feedIdx, jobsClosed, wpc, wjob, wst, wg, results, resultsClosed,
                   closerPc, collected, printed, evaluated, panicked, evars, cvars>>

\* git_list.go:105 and 109: the range ends on the closed, drained channel.
StreamReturn ==
    /\ mainPc = "stream"
    /\ Len(results) = 0
    /\ resultsClosed > 0
    /\ mainPc' = "done"
    /\ returned' = "nil"
    /\ UNCHANGED <<fsvars, writers, repos, gitListNoFetch, gitListJSON, gitListTabular, workerCount,
                   feedIdx, jobsClosed, wpc, wjob, wst, wg, results, resultsClosed,
                   closerPc, collected, printed, evaluated, panicked, evars, cvars>>

\* git_list.go:112-113: wg.Wait() returns, close(results).
AggregateClose ==
    /\ mainPc = "wait"
    /\ wg = 0
    /\ panicked' = (panicked \/ resultsClosed > 0)
    /\ resultsClosed' = resultsClosed + 1
    /\ mainPc' = "drain"
    /\ UNCHANGED <<fsvars, writers, repos, gitListNoFetch, gitListJSON, gitListTabular, workerCount,
                   feedIdx, jobsClosed, wpc, wjob, wst, wg, results, closerPc,
                   collected, printed, returned, evaluated, evars, cvars>>

\* git_list.go:115-117: one iteration of the aggregate loop.
AggregateCollect ==
    /\ mainPc = "drain"
    /\ Len(results) > 0
    /\ collected' = Append(collected, Head(results))
    /\ results' = Tail(results)
    /\ UNCHANGED <<fsvars, writers, repos, gitListNoFetch, gitListJSON, gitListTabular, workerCount,
                   mainPc, feedIdx, jobsClosed, wpc, wjob, wst, wg, resultsClosed,
                   closerPc, printed, returned, evaluated, panicked, evars, cvars>>

\* git_list.go:115-128: the range ends, the slice is sorted by path and
\* handed to the JSON encoder or the table printer, whose writes to the
\* standard output are taken to succeed.
AggregateReturn ==
    /\ mainPc = "drain"
    /\ Len(results) = 0
    /\ resultsClosed > 0
    /\ collected' = SortSlice(collected)
    /\ mainPc' = "done"
    /\ returned' = "nil"
    /\ UNCHANGED <<fsvars, writers, repos, gitListNoFetch, gitListJSON, gitListTabular, workerCount,
                   feedIdx, jobsClosed, wpc, wjob, wst, wg, results, resultsClosed,
                   closerPc, printed, evaluated, panicked, evars, cvars>>

Next ==
    \/ Discover
    \/ \E w \in Workers : FeedJob(w)
    \/ CloseJobs
    \/ \E w \in Workers : WorkerEvaluate(w)
    \/ \E w \in Workers : WorkerSend(w)
    \/ \E w \in Workers : WorkerExit(w)
    \/ CloserClose
    \/ StreamEmit
    \/ StreamReturn
    \/ AggregateClose
    \/ AggregateCollect
    \/ AggregateReturn

Spec == Init /\ [][Next]_vars

(***************************************************************************)
(* Properties of a scan (Spec).                                            *)
(***************************************************************************)
Range(seq) == {seq[i] : i \in 1..Len(seq)}

\* What evaluateRepo returns for the i-th discovered repository.
StatusOf(i) ==
    evaluateRepo(relativePath(repos[i].path), repos[i].repo, ~gitListNoFetch)

\* The records of the repositories whose evaluation is not nil.
ExpectedRecords == {StatusOf(i) : i \in 1..Len(repos)} \ {NilStatus}

\* The root is a directory and the walk below it meets no error.
Walkable == IsDir(tree, <<>>) /\ ~discoverGitRepos(tree).err

\* The scan of a walkable tree has returned.
ScanDone == mainPc = "done" /\ Walkable

\* C1: when the scan has returned, each repository whose evaluation is not
\* nil has contributed exactly one record, none is lost or duplicated; in
\* streaming mode one line was printed for each, in aggregate mode the
\* returned collection holds the same set of records.
C1_ExactlyOnce ==
    ScanDone
    => /\ Range(collected) = ExpectedRecords
       /\ Len(collected) = Cardinality(ExpectedRecords)
       /\ IF Streaming
          THEN /\ Range(printed) = {Line(r) : r \in ExpectedRecords}
               /\ Len(printed) = Cardinality(ExpectedRecords)
          ELSE printed = <<>>

\* C1 witness: a streaming scan of more repositories than workers has
\* returned after printing its lines in an order other than discovery order.
C1_Witness ==
    /\ ScanDone /\ Streaming
    /\ Len(repos) > workerCount
    /\ Len(printed) = Len(repos)
    /\ printed[1][1] # relativePath(repos[1].path)

\* C2: when the scan has returned, every discovered repository has been
\* evaluated, every repository that opens has its record, no repository
\* that fails to open has one, and the scan returned no error.
C2_FailuresIsolated ==
    ScanDone
    => /\ \A k \in 1..Len(collected) : ~collected[k].nil
       /\ returned = "nil"
       /\ evaluated = 1..Len(repos)
       /\ \A i \in 1..Len(repos) :
            repos[i].repo.opens
              <=> \E k \in 1..Len(collected) :
                     collected[k].Path = relativePath(repos[i].path)

\* C2 witness: a scan has returned in which a repository in the middle of
\* the queue failed to open and the ones around it were reported.
C2_Witness ==
    /\ ScanDone
    /\ Len(repos) = 3
    /\ repos[1].repo.opens /\ ~repos[2].repo.opens /\ repos[3].repo.opens
    /\ Len(collected) = 2

\* C3: in streaming mode a result that is in the results channel while
\* repositories remain to be dispatched can be emitted at once.
C3_EmitWithoutWaiting ==
    (Streaming /\ Len(results) > 0 /\ feedIdx <= Len(repos))
    => ENABLED StreamEmit

StrictlyAscending(seq) ==
    \A i, j \in 1..Len(seq) : i < j => StringLess(seq[i].Path, seq[j].Path)

\* C4: in aggregate mode the returned collection is in ascending order of
\* path and holds the expected records, so it is the same sequence whatever
\* the order in which the workers completed.
C4_SortedByPath ==
    (ScanDone /\ ~Streaming)
    => /\ StrictlyAscending(collected)
       /\ Range(collected) = ExpectedRecords

\* C4 witness: an aggregate scan has returned a collection whose order is
\* not the order of discovery.
C4_Witness ==
    /\ ScanDone /\ ~Streaming
    /\ Len(collected) = Len(repos)
    /\ \E i \in 1..Len(repos) : collected[i].Path # relativePath(repos[i].path)

\* C15: when the walk below the root reports an error, the scan returns
\* that error, no worker is started, no repository is evaluated and nothing
\* is emitted, also when repositories were found before the error.
C15_WalkErrorIsFatal ==
    (IsDir(tree, <<>>) /\ discoverGitRepos(tree).err)
    => /\ mainPc \in {"discover", "done"}
       /\ mainPc = "done" => returned = "walk"
       /\ \A w \in Workers : wpc[w] = "unstarted"
       /\ wg = 0
       /\ evaluated = {}
       /\ results = <<>> /\ collected = <<>> /\ printed = <<>>

\* C15 witness: the scan has returned the error of a walk that had found
\* repositories before it failed.
C15_Witness ==
    /\ mainPc = "done"
    /\ returned = "walk"
    /\ Len(repos) > 1

\* C16: only the goroutine of the command writes result lines, so at most
\* one goroutine writes, and every line written is the whole line of one
\* record.
C16_SingleWriter ==
    /\ writers \subseteq {MainGoroutine}
    /\ \A k \in 1..Len(printed) : printed[k] \in {Line(r) : r \in ExpectedRecords}

\* C16 witness: in streaming mode a line has been written while another
\* result waits in the channel and a worker is about to send a third.
C16_Witness ==
    /\ Streaming
    /\ writers = {MainGoroutine}
    /\ Len(printed) > 0
    /\ Len(results) > 0
    /\ \E w \in Workers : wpc[w] = "send"

\* The evaluations that have returned a record, and those among them whose
\* record the worker has not sent yet.
Produced ==
    {k \in evaluated :
        ~evaluateRepo(relativePath(repos[k].path), repos[k].repo, ~gitListNoFetch).nil}
Unsent == {k \in Produced : \E w \in Workers : wpc[w] = "send" /\ wjob[w] = k}

\* C28: in both output modes close(results) runs at most once and only when
\* every worker has exited, no send and no close ever meets a closed
\* channel, every record sent is in the channel or received, and the
\* receive loop has ended only when every record produced was received.
C28_ClosedOnceAfterWorkers ==
    /\ resultsClosed <= 1
    /\ resultsClosed > 0 => (wg = 0 /\ \A w \in Workers : wpc[w] = "exit")
    /\ ~panicked
    /\ Len(results) + Len(collected) = Cardinality(Produced \ Unsent)
    /\ (mainPc = "done" /\ returned = "nil" /\ Len(repos) > 0) =>
          /\ resultsClosed = 1
          /\ Len(results) = 0
          /\ Len(collected) = Cardinality(Produced)

\* C28 witness: the streaming loop has ended on the closed channel after
\* it received the records of several repositories, one evaluation having
\* returned no record.
C28_Witness ==
    /\ Streaming
    /\ mainPc = "done"
    /\ resultsClosed = 1
    /\ Len(collected) > 1
    /\ Cardinality(evaluated) > Len(collected)
    /\ \A w \in Workers : wpc[w] = "exit"

\* The same in the aggregate modes: close(results) has run after wg.Wait()
\* and the loop has drained the channel.
AggregateClosedAfterWorkers ==
    /\ ~Streaming
    /\ mainPc = "done"
    /\ resultsClosed = 1
    /\ Len(collected) > 1
    /\ \A w \in Workers : wpc[w] = "exit"

(***************************************************************************)
(* SpecFair: the scan under the scheduling of the Go runtime.  A goroutine *)
(* that can take a step takes it: the goroutine of the command, the        *)
(* closing goroutine and every worker are weakly fair, and an evaluation   *)
(* that has started returns (WorkerEvaluate).                              *)
(***************************************************************************)
MainStep ==
    \/ Discover
    \/ \E w \in Workers : FeedJob(w)
    \/ CloseJobs
    \/ StreamEmit
    \/ StreamReturn
    \/ AggregateClose
    \/ AggregateCollect
    \/ AggregateReturn

WorkerStep(w) ==
    \/ WorkerEvaluate(w)
    \/ WorkerSend(w)
    \/ WorkerExit(w)

Fairness ==
    /\ WF_vars(MainStep)
    /\ WF_vars(CloserClose)
    /\ \A w \in 1..WorkerCountFor(MaxCPU) : WF_vars(w \in Workers /\ WorkerStep(w))

\* The scans of every number of repositories up to MaxRepos, at the first
\* places of WalkOrder, each of which opens or not, in streaming and in
\* aggregate mode, on a machine with one CPU.
FairInit ==
    /\ \E d \in {e \in Discoveries : \A k \in 1..Len(e) : e[k].path = WalkOrder[k]} :
          tree = TreeOf(d, "absent") /\ disk = DiskOf(d)
    /\ writers = {}
    /\ repos = <<>>
    /\ gitListNoFetch = TRUE
    /\ gitListJSON \in BOOLEAN
    /\ gitListTabular = FALSE
    /\ workerCount = WorkerCountFor(1)
    /\ mainPc = "discover"
    /\ feedIdx = 1
    /\ jobsClosed = FALSE
    /\ wpc = [w \in Workers |-> "unstarted"]
    /\ wjob = [w \in Workers |-> 0]
    /\ wst = [w \in Workers |-> NilStatus]
    /\ wg = 0
    /\ results = <<>>
    /\ resultsClosed = 0
    /\ closerPc = "idle"
    /\ collected = <<>>
    /\ printed = <<>>
    /\ returned = "running"
    /\ evaluated = {}
    /\ panicked = FALSE
    /\ EvalIdle
    /\ BitbucketIdle
    /\ JiraIdle

SpecFair == FairInit /\ [][Next]_vars /\ Fairness

\* A worker that holds a result finds room in the results channel.
NoSendBlocks == \A w \in Workers : wpc[w] = "send" => Len(results) < ResultsCap

\* Once the workers were started, the scan has returned only after every
\* path was handed to a worker and every worker has exited.
AllHandedOver ==
    (mainPc = "done" /\ Walkable)
    => /\ feedIdx = Len(repos) + 1
       /\ evaluated = 1..Len(repos)
       /\ \A w \in Workers : wpc[w] = "exit"
       /\ wg = 0

\* C21: for every number of repositories and in both output modes the scan
\* returns; no worker that holds a result ever waits for room in the
\* results channel, and when the scan returns every path has been handed
\* to a worker and every worker has exited.
C21_ScanTerminates ==
    /\ []NoSendBlocks
    /\ []AllHandedOver
    /\ <>(mainPc = "done")

\* C21 witness: an aggregate scan of more repositories than workers has
\* returned, after the results channel held a result of every repository.
C21_Witness ==
    /\ ScanDone /\ ~Streaming
    /\ Len(repos) > workerCount
    /\ Len(collected) = Len(repos)
    /\ \A w \in Workers : wpc[w] = "exit"

(***************************************************************************)
(* SpecEval: one call of evaluateRepo on every repository of the families  *)
(* above; the scan does not run.                                           *)
(***************************************************************************)
ScanIdle ==
    /\ tree = BareRoot("dir") /\ disk = <<>>
    /\ writers = {}
    /\ repos = <<>>
    /\ gitListNoFetch = FALSE /\ gitListJSON = FALSE /\ gitListTabular = FALSE
    /\ workerCount = 0
    /\ mainPc = "idle"
    /\ feedIdx = 1
    /\ jobsClosed = FALSE
    /\ wpc = <<>> /\ wjob = <<>> /\ wst = <<>>
    /\ wg = 0
    /\ results = <<>>
    /\ resultsClosed = 0
    /\ closerPc = "idle"
    /\ collected = <<>>
    /\ printed = <<>>
    /\ returned = "running"
    /\ evaluated = {}
    /\ panicked = FALSE

\* The path evaluateRepo reports is computed by the caller's arguments only;
\* SpecEval passes the root itself.
RootRel == <<46>>

EvalInit ==
    /\ \/ /\ \E f \in HistoriesUpTo(NCommits) : \E l, u \in Hash :
                \E missing \in {{}} \cup {{c} : c \in Hash} :
                   repo = [HistoryRepo(f, l, u) EXCEPT !.present = Hash \ missing]
          /\ doFetch = FALSE
       \/ /\ \E f \in HistoriesUpTo(NCommits) : \E l \in Hash :
                \E hd \in {"branch", "detached", "unborn"}, b \in {"main", "DETACHED"} :
                   repo = [HistoryRepo(f, l, NCommits) EXCEPT
                              !.head = hd, !.branch = b, !.cfgName = "other"]
          /\ doFetch \in BOOLEAN
       \/ repo \in ConfigRepos /\ doFetch \in BOOLEAN
       \/ repo \in WorktreeRepos /\ doFetch \in BOOLEAN
       \/ repo \in ConfigErrorRepos /\ doFetch \in BOOLEAN
       \/ repo = BrokenRepo /\ doFetch \in BOOLEAN
    /\ st = NilStatus
    /\ epc = "call"
    /\ TraverseIdle
    /\ ScanIdle
    /\ BitbucketIdle
    /\ JiraIdle

Evaluate ==
    /\ epc = "call"
    /\ st' = evaluateRepo(RootRel, repo, doFetch)
    /\ epc' = "done"
    /\ UNCHANGED <<repo, doFetch, tvars, svars, cvars>>

EvalNext == Evaluate

SpecEval == EvalInit /\ [][EvalNext]_vars

(***************************************************************************)
(* Properties of evaluateRepo (SpecEval).                                  *)
(***************************************************************************)
\* The call has returned a record.
Returned == epc = "done" /\ ~st.nil

\* The call compared the local tip with a resolved upstream tip.
Compared ==
    /\ Returned
    /\ Upstream(repo) # <<>>
    /\ RemoteHash(repo, doFetch) # NoHash

LocalTip == repo.tip
UpstreamTip == RemoteHash(repo, doFetch)

\* C5: when the upstream tip is an ancestor of the local tip and the local
\* tip has exactly k commits the upstream tip does not reach, 0 < k < bound,
\* the record has ahead = k, behind = 0 and state "ahead", whatever the depth
\* of the history.
C5_AheadByK ==
    (/\ Compared
     /\ UpstreamTip \in TrueAncestors(repo, LocalTip)
     /\ Cardinality(Unique(repo, LocalTip, UpstreamTip)) \in 1..(maxCommits - 1))
    => /\ st.Ahead = Cardinality(Unique(repo, LocalTip, UpstreamTip))
       /\ st.Behind = 0
       /\ st.State = "ahead"

\* C6: the reported state is the classification given by the exact ancestor
\* sets of the two tips, for histories of every depth.
C6_StateExact ==
    Compared => st.State = ExactState(repo, LocalTip, UpstreamTip)

\* C7: when each tip has a commit the other does not reach, the state is
\* "diverged" and both counts are positive, truncated traversals included.
C7_Diverged ==
    (/\ Compared
     /\ Unique(repo, LocalTip, UpstreamTip) # {}
     /\ Unique(repo, UpstreamTip, LocalTip) # {})
    => st.State = "diverged" /\ st.Ahead > 0 /\ st.Behind > 0

\* C7 witness: a diverged pair of tips whose traversals were truncated.
C7_Witness ==
    /\ Compared
    /\ Unique(repo, LocalTip, UpstreamTip) # {}
    /\ Unique(repo, UpstreamTip, LocalTip) # {}
    /\ Cardinality(TrueAncestors(repo, LocalTip)) > maxCommits
    /\ Cardinality(TrueAncestors(repo, UpstreamTip)) > maxCommits
    /\ st.State = "diverged"

\* C8: when the local tip and the resolved upstream tip are the same commit
\* the state is "up-to-date" and both counts are 0, at every depth.
C8_UpToDate ==
    (Compared /\ LocalTip = UpstreamTip)
    => st.State = "up-to-date" /\ st.Ahead = 0 /\ st.Behind = 0

\* C8 witness: equal tips on a history deeper than the traversal bound.
C8_Witness ==
    /\ Compared
    /\ LocalTip = UpstreamTip
    /\ Cardinality(TrueAncestors(repo, LocalTip)) > maxCommits
    /\ st.State = "up-to-date"

\* HEAD is a named branch without a usable tracking configuration.
NoTracking ==
    /\ repo.head = "branch"
    /\ \/ repo.cfgName # repo.branch
       \/ repo.cfgRemote = <<>>
       \/ repo.cfgMerge = <<>>

\* C9: a named branch with no tracking configuration is reported
\* "no-upstream" with an empty upstream and counts 0, whatever the history
\* and the doFetch flag.
C9_NoUpstream ==
    (Returned /\ NoTracking)
    => /\ st.State = "no-upstream"
       /\ st.Upstream = <<>>
       /\ st.Ahead = 0 /\ st.Behind = 0

\* C10: the state is "detached" exactly when the branch field is DETACHED,
\* that is when HEAD does not resolve to a named branch, and such a record
\* has an empty upstream and counts 0.
C10_Detached ==
    Returned
    => /\ (st.State = "detached") <=> (st.Branch = "DETACHED")
       /\ (st.Branch = "DETACHED") <=> (repo.head # "branch")
       /\ (st.Branch = "DETACHED")
            => st.Upstream = <<>> /\ st.Ahead = 0 /\ st.Behind = 0

\* C11: a record whose state is "no-upstream" has an empty upstream and a
\* branch other than DETACHED.
C11_NoUpstreamShape ==
    (Returned /\ st.State = "no-upstream")
    => st.Upstream = <<>> /\ st.Branch # "DETACHED"

\* C12: in every record both counts lie between 0 and the traversal bound,
\* for histories of every depth and shape, merges and missing commit
\* objects included.
C12_CountsCapped ==
    Returned
    => /\ 0 <= st.Ahead /\ st.Ahead <= maxCommits
       /\ 0 <= st.Behind /\ st.Behind <= maxCommits

\* C12 witness: on a history deeper than the bound, with a merge and a
\* missing commit object, a count has reached the bound.
C12_Witness ==
    /\ Compared
    /\ Cardinality(TrueAncestors(repo, LocalTip)) > maxCommits
    /\ \E c \in Hash : Len(repo.parents[c]) > 1
    /\ repo.present # Hash
    /\ st.Ahead = maxCommits

\* The comparison localHash == remoteHash of a call; it is false when the
\* call never obtained a remote hash.
TipsEqual == Compared /\ LocalTip = UpstreamTip

\* The one state that goes with each value of (branch, upstream, ahead,
\* behind, localHash == remoteHash).
StateFromKey(branch, upstream, ahead, behind, tipsEqual) ==
    IF upstream = <<>>
    THEN IF branch = "DETACHED" THEN "detached" ELSE "no-upstream"
    ELSE IF tipsEqual THEN "up-to-date"
    ELSE IF ahead > 0 /\ behind = 0 THEN "ahead"
    ELSE IF behind > 0 /\ ahead = 0 THEN "behind"
    ELSE IF ahead > 0 /\ behind > 0 THEN "diverged"
    ELSE "no-upstream"

\* C13: the state of every record is the value at (branch, upstream, ahead,
\* behind, localHash == remoteHash) of one function, so two evaluations that
\* agree on the five values have the same state, whatever the dirty and
\* stashed flags, the fetch flag and the resolvability of the
\* remote-tracking reference.
C13_StateFunctionOfKey ==
    Returned
    => st.State = StateFromKey(st.Branch, st.Upstream, st.Ahead, st.Behind, TipsEqual)

\* C13 witness: a dirty, stashed repository evaluated with the fetch flag
\* set, whose upstream is configured and whose remote-tracking reference
\* does not resolve.
C13_Witness ==
    /\ Returned
    /\ st.Dirty /\ st.Stashed /\ doFetch
    /\ st.Upstream # <<>>
    /\ RemoteHash(repo, doFetch) = NoHash
    /\ st.State = "no-upstream"

\* C29: a record with state "ahead" comes from a local tip that the
\* upstream tip is a true ancestor of, and a record with state "behind" from
\* an upstream tip that the local tip is a true ancestor of, the tips being
\* different, whether or not the traversals were truncated.
C29_FastForwardSound ==
    Compared =>
        /\ st.State = "ahead" =>
              (UpstreamTip # LocalTip /\ UpstreamTip \in TrueAncestors(repo, LocalTip))
        /\ st.State = "behind" =>
              (UpstreamTip # LocalTip /\ LocalTip \in TrueAncestors(repo, UpstreamTip))

\* C29 witness: state "ahead" is reported for two tips that both have more
\* ancestors than the bound, so both traversals were truncated, and each
\* truncated set holds a commit the other does not.
C29_Witness ==
    /\ Compared
    /\ st.State = "ahead"
    /\ Cardinality(TrueAncestors(repo, LocalTip)) > maxCommits
    /\ Cardinality(TrueAncestors(repo, UpstreamTip)) > maxCommits
    /\ Ancestors(repo, UpstreamTip) \ Ancestors(repo, LocalTip) # {}

\* The same for "behind".
BehindUnderTruncation ==
    /\ Compared
    /\ st.State = "behind"
    /\ Cardinality(TrueAncestors(repo, LocalTip)) > maxCommits
    /\ Cardinality(TrueAncestors(repo, UpstreamTip)) > maxCommits
    /\ Ancestors(repo, LocalTip) \ Ancestors(repo, UpstreamTip) # {}

\* C30: in every record state "ahead" goes with ahead > 0 and behind = 0,
\* state "behind" with behind > 0 and ahead = 0, and state "diverged" with
\* both counts positive; two different tips never give two counts of 0.
C30_StateMatchesCounts ==
    Returned =>
        /\ st.State = "ahead" => (st.Ahead > 0 /\ st.Behind = 0)
        /\ st.State = "behind" => (st.Behind > 0 /\ st.Ahead = 0)
        /\ st.State = "diverged" => (st.Ahead > 0 /\ st.Behind > 0)
        /\ (Compared /\ LocalTip # UpstreamTip) => (st.Ahead > 0 \/ st.Behind > 0)

\* C30 witness: the last branch of the classification was taken for two
\* tips of which one is a true ancestor of the other; the traversals were
\* truncated, one of them over a merge, and both counts are positive.
C30_Witness ==
    /\ Compared
    /\ st.State = "diverged"
    /\ ExactState(repo, LocalTip, UpstreamTip) = "ahead"
    /\ Cardinality(TrueAncestors(repo, LocalTip)) > maxCommits
    /\ Cardinality(TrueAncestors(repo, UpstreamTip)) > maxCommits
    /\ \E c \in Hash : Len(repo.parents[c]) > 1
    /\ st.Ahead > 0 /\ st.Behind > 0

\* The current branch has a tracking configuration: HEAD is on a branch
\* whose section of the configuration names a remote and a merge reference.
UpstreamConfigured ==
    /\ repo.head = "branch"
    /\ repo.cfgName = repo.branch
    /\ repo.cfgRemote # <<>>
    /\ repo.cfgMerge # <<>>

\* C22: a call on a repository that opens attempts a fetch exactly when
\* doFetch is set and the current branch has an upstream configured; none
\* is attempted for a detached HEAD or a branch without tracking
\* configuration; and the remote-tracking reference is resolved after the
\* fetch, so that it is what a successful fetch left.
C22_FetchIffUpstream ==
    (epc = "done" /\ repo.opens)
    => /\ FetchAttempted(repo, doFetch) <=> (doFetch /\ UpstreamConfigured)
       /\ ~UpstreamConfigured => ~FetchAttempted(repo, doFetch)
       /\ (FetchSucceeded(repo, doFetch) /\ repo.fetchHash # NoHash)
            => RemoteHash(repo, doFetch) = repo.fetchHash

\* C23: a call on a repository that opens returns a record and does not
\* abort; after a failed fetch the record is the one computed from the
\* references present locally; and an upstream whose remote-tracking
\* reference does not resolve gives no-upstream with both counts 0.
C23_AlwaysARecord ==
    (epc = "done" /\ repo.opens)
    => /\ ~st.nil
       /\ (FetchAttempted(repo, doFetch) /\ ~repo.fetchOk)
            => st = evaluateRepo(RootRel, repo, FALSE)
       /\ (Upstream(repo) # <<>> /\ RemoteHash(repo, doFetch) = NoHash)
            => st.State = "no-upstream" /\ st.Ahead = 0 /\ st.Behind = 0

\* Apart from the unreadable configuration, the same holds.
RecordWhenConfigReads ==
    (epc = "done" /\ repo.opens /\ repo.cfgOk)
    => /\ ~st.nil
       /\ (FetchAttempted(repo, doFetch) /\ ~repo.fetchOk)
            => st = evaluateRepo(RootRel, repo, FALSE)
       /\ (Upstream(repo) # <<>> /\ RemoteHash(repo, doFetch) = NoHash)
            => st.State = "no-upstream" /\ st.Ahead = 0 /\ st.Behind = 0

\* C24: a record says stashed exactly when the stash reflog is a non-empty
\* file or refs/stash is a file; a repository with an empty stash reflog
\* and no refs/stash is reported as not stashed.
C24_StashedIffEntry ==
    Returned
    => (st.Stashed <=> (repo.stashLog = "file" \/ repo.stashRef \in {"empty", "file"}))

\* Apart from the empty stash reflog, the same holds.
StashedUnlessEmptyLog ==
    (Returned /\ repo.stashLog # "empty")
    => (st.Stashed <=> (repo.stashLog = "file" \/ repo.stashRef \in {"empty", "file"}))

(***************************************************************************)
(* SpecTraverse: one of the two ancestor traversals of evaluateRepo        *)
(* (git_list.go:240-253 and 254-267), one iteration of the for statement   *)
(* at a time, from the newest commit of every history of NCommits commits  *)
(* with at most one commit object missing.  The bound of the traversal is  *)
(* maxCommits, as in SpecEval, or up to two more, so that the traversal    *)
(* also meets hashes it has seen before the bound ends it.                 *)
(***************************************************************************)
TraverseInit ==
    /\ \E f \in HistoriesUpTo(NCommits) :
          \E missing \in {{}} \cup {{c} : c \in Hash} :
             repo = [HistoryRepo(f, NCommits, NCommits) EXCEPT !.present = Hash \ missing]
    /\ doFetch = FALSE /\ st = NilStatus /\ epc = "idle"
    /\ bfsTip = NCommits
    /\ bfsMax \in maxCommits..(maxCommits + 2)
    /\ bfsQueue = <<bfsTip>>
    /\ bfsAnc = {}
    /\ bfsInserts = <<>>
    /\ bfsPc = "loop"
    /\ ScanIdle
    /\ BitbucketIdle
    /\ JiraIdle

\* Fault variant of BfsIterate: the test for a hash already seen is left
\* out.
BfsIterateNoSeenTest ==
    /\ bfsPc = "loop"
    /\ Len(bfsQueue) > 0 /\ Cardinality(bfsAnc) < bfsMax
    /\ LET h == Head(bfsQueue)
       IN  /\ bfsAnc' = bfsAnc \cup {h}
           /\ bfsInserts' = Append(bfsInserts, h)
           /\ bfsQueue' = IF h \notin repo.present THEN Tail(bfsQueue)
                          ELSE Tail(bfsQueue) \o repo.parents[h]
    /\ UNCHANGED <<repo, doFetch, st, epc, bfsTip, bfsMax, bfsPc, svars, cvars>>

\* git_list.go:241-253: the loop test holds and the body runs once.
BfsIterate ==
    /\ bfsPc = "loop"
    /\ Len(bfsQueue) > 0 /\ Cardinality(bfsAnc) < bfsMax
    /\ LET h == Head(bfsQueue)
       IN  IF h \in bfsAnc
           THEN /\ bfsQueue' = Tail(bfsQueue)
                /\ UNCHANGED <<bfsAnc, bfsInserts>>
           ELSE /\ bfsAnc' = bfsAnc \cup {h}
                /\ bfsInserts' = Append(bfsInserts, h)
                /\ bfsQueue' = IF h \notin repo.present THEN Tail(bfsQueue)
                               ELSE Tail(bfsQueue) \o repo.parents[h]
    /\ UNCHANGED <<repo, doFetch, st, epc, bfsTip, bfsMax, bfsPc, svars, cvars>>

\* git_list.go:241: the loop test fails.
BfsExit ==
    /\ bfsPc = "loop"
    /\ ~(Len(bfsQueue) > 0 /\ Cardinality(bfsAnc) < bfsMax)
    /\ bfsPc' = "done"
    /\ UNCHANGED <<repo, doFetch, st, epc, bfsTip, bfsMax, bfsQueue, bfsAnc, bfsInserts,
                   svars, cvars>>

TraverseNext ==
    \/ BfsIterate
    \/ BfsExit

\* The goroutine that runs the loop is scheduled.
SpecTraverse == TraverseInit /\ [][TraverseNext]_vars /\ WF_vars(TraverseNext)

\* C25: on every history the traversal ends; no commit is inserted into the
\* set twice; the set never holds more commits than the bound; and when
\* the traversal has ended the set holds the tip it started from and, for
\* the bound maxCommits, is the set evaluateRepo computes with.
C25_TraversalTerminates ==
    /\ [](\A i, j \in 1..Len(bfsInserts) : i # j => bfsInserts[i] # bfsInserts[j])
    /\ [](Cardinality(bfsAnc) <= bfsMax)
    /\ [](bfsPc = "done" => bfsTip \in bfsAnc)
    /\ []((bfsPc = "done" /\ bfsMax = maxCommits) => bfsAnc = Ancestors(repo, bfsTip))
    /\ <>(bfsPc = "done")

\* C25 witness: a traversal over a history with a merge and a missing
\* commit object has ended at the bound with hashes left in the queue, after
\* taking more iterations than it inserted commits, that is after meeting
\* a hash it had already seen.
C25_Witness ==
    /\ bfsPc = "done"
    /\ Cardinality(bfsAnc) = bfsMax
    /\ bfsQueue # <<>>
    /\ \E c \in Hash : Len(repo.parents[c]) > 1
    /\ repo.present # Hash
    /\ \E c \in bfsAnc :
          Cardinality({d \in bfsAnc : c \in Range(repo.parents[d]) /\ d \in repo.present}) > 1

(***************************************************************************)
(* SpecDiscover: the discovery step of RunE on every directory tree of a   *)
(* bounded family; the entries are named `.git` or `a`.                    *)
(***************************************************************************)
\* The places where an entry can be added to the entries e: below a
\* directory that can be read, under a name not yet taken.
FreePlaces(e) ==
    {Append(q, nm) : q \in {r \in DOMAIN e : e[r] = "dir" /\ Len(r) < MaxDepth},
                     nm \in {DotGit, NameA}} \ DOMAIN e

\* Every tree of at most n entries below a root directory.
RECURSIVE EntriesUpTo(_)
EntriesUpTo(n) ==
    IF n = 0 THEN {[q \in {<<>>} |-> "dir"]}
    ELSE LET smaller == EntriesUpTo(n - 1)
         IN  smaller \cup
             UNION {{e @@ (q :> kind) : q \in FreePlaces(e),
                                        kind \in {"dir", "file", "noread"}}
                    : e \in smaller}

DiscoverInit ==
    /\ \E e \in EntriesUpTo(MaxEntries), rn \in {NameA, DotGit} :
          tree = [rootName |-> rn, entries |-> e]
    /\ disk = <<>>
    /\ writers = {}
    /\ repos = <<>>
    /\ gitListNoFetch = FALSE /\ gitListJSON = FALSE /\ gitListTabular = FALSE
    /\ workerCount = WorkerCountFor(1)
    /\ mainPc = "discover"
    /\ feedIdx = 1
    /\ jobsClosed = FALSE
    /\ wpc = [w \in Workers |-> "unstarted"]
    /\ wjob = [w \in Workers |-> 0]
    /\ wst = [w \in Workers |-> NilStatus]
    /\ wg = 0
    /\ results = <<>>
    /\ resultsClosed = 0
    /\ closerPc = "idle"
    /\ collected = <<>>
    /\ printed = <<>>
    /\ returned = "running"
    /\ evaluated = {}
    /\ panicked = FALSE
    /\ EvalIdle
    /\ BitbucketIdle
    /\ JiraIdle

DiscoverNext == Discover

SpecDiscover == DiscoverInit /\ [][DiscoverNext]_vars

(***************************************************************************)
(* Properties of the discovery (SpecDiscover).                             *)
(***************************************************************************)
\* discoverGitRepos has returned without error.
Discovered == mainPc = "feed"

FoundPaths == {repos[k].path : k \in 1..Len(repos)}

\* The directories named .git of the tree.
GitDirs ==
    {q \in DOMAIN tree.entries : IsDir(tree, q) /\ EntryName(tree, q) = DotGit}

\* The path lies inside a directory named .git.
InsideGit(path) ==
    \/ tree.rootName = DotGit /\ path # <<DotDot>>
    \/ \E n \in 1..Len(path) : path[n] = DotGit

\* The directory q has a proper ancestor named .git.
BelowGit(q) ==
    \/ tree.rootName = DotGit /\ q # <<>>
    \/ \E n \in 1..(Len(q) - 1) : q[n] = DotGit

\* C14 as stated: the result is exactly the set of directories that
\* directly contain a .git directory, each once, and no path of the result
\* lies inside a .git directory.
C14_DiscoverExact ==
    Discovered
    => /\ FoundPaths = {Dir(q) : q \in GitDirs}
       /\ Len(repos) = Cardinality(FoundPaths)
       /\ \A path \in FoundPaths : ~InsideGit(path)

\* C14 amended: the result is exactly the set of parents of the .git
\* directories that do not lie inside another .git directory, each once,
\* and no path of the result lies inside a .git directory.
C14_DiscoverOutsideGit ==
    Discovered
    => /\ FoundPaths = {Dir(q) : q \in {g \in GitDirs : ~BelowGit(g)}}
       /\ Len(repos) = Cardinality(FoundPaths)
       /\ \A path \in FoundPaths : ~InsideGit(path)

\* C14 witness: the root and a directory nested below it are returned,
\* and a directory inside the root's .git that holds a .git directory of
\* its own is not.
C14_Witness ==
    /\ Discovered
    /\ FoundPaths = {<<>>, <<NameA>>}
    /\ <<DotGit, NameA, DotGit>> \in GitDirs

\* A tree with repositories at the depths 0, 1 and 3 has been walked.
C14_DepthsWitness ==
    /\ Discovered
    /\ FoundPaths = {<<>>, <<NameA>>, <<NameA, NameA, NameA>>}

\* The entries named .git, of whatever kind.
DotGitEntries == {q \in DOMAIN tree.entries : EntryName(tree, q) = DotGit}

\* C26: after discovery the parent of every entry named .git, a directory
\* or a regular file, is among the repository roots.
C26_EveryDotGitEntry ==
    Discovered
    => \A q \in DotGitEntries : Dir(q) \in FoundPaths

\* C26 amended: the parent of every directory named .git that does not
\* lie inside another .git directory is among the repository roots, and
\* the parent of a regular file named .git is not.
C26_DotGitDirectoriesOnly ==
    Discovered
    => \A q \in DotGitEntries :
          /\ (IsDir(tree, q) /\ ~BelowGit(q)) => Dir(q) \in FoundPaths
          /\ tree.entries[q] = "file" => Dir(q) \notin FoundPaths

\* C26 witness: a walk has returned the root, which holds a .git
\* directory, and not the directory `a`, which holds a .git file.
C26_Witness ==
    /\ Discovered
    /\ <<DotGit>> \in DOMAIN tree.entries /\ tree.entries[<<DotGit>>] = "dir"
    /\ <<NameA, DotGit>> \in DOMAIN tree.entries
    /\ tree.entries[<<NameA, DotGit>>] = "file"
    /\ FoundPaths = {<<>>}

(***************************************************************************)
(* SpecBitbucket: one call of Client.makeRequestWithRetry                  *)
(* (internal/bitbucket/client.go, src/unnamed/part_017:771-833) against a  *)
(* server that answers each request with any status, or not at all.        *)
(***************************************************************************)
\* part_017:747: capacity of the rateLimiter channel.
RateLimiterCap == 2

\* What c.httpClient.Do can give: a response with one of these statuses, or
\* an error.
Statuses == {200, 400, 429, 500}
Outcomes == Statuses \cup {TransportError}

\* The call returns.
Return(r, e) == [pc |-> "done", resp |-> r, err |-> e]

\* Fault variant of AfterDo: the last attempt is not told apart, the loop
\* sleeps and runs out instead of returning the rate-limit error.
AfterDoNoLastAttempt(outcome, att, max) ==
    IF outcome = TransportError THEN Return(NoResponse, "failed to make request")
    ELSE IF outcome = 429
    THEN [pc |-> "sleep", resp |-> NoResponse, err |-> "nil"]
    ELSE Return(outcome, "nil")

\* Fault variant of AfterDo: server errors are retried like a 429.
AfterDoRetryServerError(outcome, att, max) ==
    IF outcome = TransportError THEN Return(NoResponse, "failed to make request")
    ELSE IF outcome = 429 \/ outcome >= 500
    THEN IF att < max - 1
         THEN [pc |-> "sleep", resp |-> NoResponse, err |-> "nil"]
         ELSE Return(NoResponse, "rate limit exceeded")
    ELSE Return(outcome, "nil")

\* part_017:806-829: what the loop body does with the outcome of Do.
AfterDo(outcome, att, max) ==
    IF outcome = TransportError THEN Return(NoResponse, "failed to make request")
    ELSE IF outcome = 429
    THEN IF att < max - 1
         THEN [pc |-> "sleep", resp |-> NoResponse, err |-> "nil"]
         ELSE Return(NoResponse, "rate limit exceeded")
    ELSE IF outcome >= 400 THEN Return(outcome, "nil")
    ELSE Return(outcome, "nil")

BitbucketInit ==
    /\ maxRetries \in 0..MaxRetriesArg
    /\ body \in {"nil", "json", "unmarshalable"}
    /\ \/ rateLimiter = "nil" /\ tokens = 0
       \/ rateLimiter = "chan" /\ tokens \in 0..RateLimiterCap
    /\ bpc = "loop"
    /\ attempt = 0
    /\ sent = <<>>
    /\ slept = <<>>
    /\ resp = NoResponse
    /\ err = "nil"
    /\ ScanIdle
    /\ EvalIdle
    /\ JiraIdle

\* part_017:749-757: the ticker goroutine offers a value to the channel and
\* drops it when the channel is full.
LimiterTick ==
    /\ rateLimiter = "chan"
    /\ tokens < RateLimiterCap
    /\ tokens' = tokens + 1
    /\ UNCHANGED <<maxRetries, body, rateLimiter, bpc, attempt, sent, slept,
                   resp, err, svars, evars, jvars>>

\* part_017:774 and 832: the loop test.
LoopTest ==
    /\ bpc = "loop"
    /\ IF attempt < maxRetries
       THEN /\ bpc' = IF rateLimiter = "nil" THEN "send" ELSE "token"
            /\ UNCHANGED <<resp, err>>
       ELSE /\ bpc' = "done"
            /\ resp' = NoResponse
            /\ err' = "max retries exceeded"
    /\ UNCHANGED <<maxRetries, body, rateLimiter, tokens, attempt, sent, slept,
                   svars, evars, jvars>>

\* part_017:776-778: the receive from the rateLimiter channel.
TakeToken ==
    /\ bpc = "token"
    /\ tokens > 0
    /\ tokens' = tokens - 1
    /\ bpc' = "send"
    /\ UNCHANGED <<maxRetries, body, rateLimiter, attempt, sent, slept,
                   resp, err, svars, evars, jvars>>

\* part_017:780-829: the body is marshalled, the request is built and sent,
\* and the outcome decides what follows.
SendRequest ==
    /\ bpc = "send"
    /\ IF body = "unmarshalable"
       THEN /\ bpc' = "done"
            /\ resp' = NoResponse
            /\ err' = "failed to marshal request body"
            /\ UNCHANGED sent
       ELSE \E outcome \in Outcomes :
              LET next == AfterDo(outcome, attempt, maxRetries)
              IN  /\ sent' = Append(sent, outcome)
                  /\ bpc' = next.pc
                  /\ resp' = next.resp
                  /\ err' = next.err
    /\ UNCHANGED <<maxRetries, body, rateLimiter, tokens, attempt, slept,
                   svars, evars, jvars>>

\* part_017:815-819: the wait before the next attempt, then `continue`.
Backoff ==
    /\ bpc = "sleep"
    /\ slept' = Append(slept, (attempt + 1) * 2)
    /\ attempt' = attempt + 1
    /\ bpc' = "loop"
    /\ UNCHANGED <<maxRetries, body, rateLimiter, tokens, sent, resp, err,
                   svars, evars, jvars>>

BitbucketNext ==
    \/ LimiterTick
    \/ LoopTest
    \/ TakeToken
    \/ SendRequest
    \/ Backoff

SpecBitbucket == BitbucketInit /\ [][BitbucketNext]_vars

(***************************************************************************)
(* Properties of makeRequestWithRetry (SpecBitbucket).                     *)
(***************************************************************************)
Marshals == body # "unmarshalable"

\* C17: for maxRetries >= 1 and a body that marshals, a call that has
\* returned after receiving only 429 responses has sent exactly maxRetries
\* requests and returns no response and the rate-limit error; and no call
\* ever sends more than maxRetries requests.
C17_RateLimitExhausted ==
    /\ (maxRetries >= 1) => Len(sent) <= maxRetries
    /\ (/\ maxRetries >= 1 /\ Marshals
        /\ bpc = "done"
        /\ \A i \in 1..Len(sent) : sent[i] = 429)
       => /\ Len(sent) = maxRetries
          /\ resp = NoResponse
          /\ err = "rate limit exceeded"

\* C17 witness: a call with maxRetries = MaxRetriesArg through the rate
\* limiter has returned after as many 429 responses.
C17_Witness ==
    /\ bpc = "done"
    /\ maxRetries = MaxRetriesArg
    /\ rateLimiter = "chan"
    /\ Len(sent) = maxRetries
    /\ \A i \in 1..Len(sent) : sent[i] = 429
    /\ err = "rate limit exceeded"

\* C18: every response before the last one received is a 429, so nothing
\* is sent after a response of another status; when the last response has
\* another status the call has returned it with a nil error, the number of
\* requests being the number of leading 429 responses plus one and at most
\* maxRetries.
C18_FirstNon429Returned ==
    /\ \A i \in 1..(Len(sent) - 1) : sent[i] = 429
    /\ (Len(sent) > 0 /\ sent[Len(sent)] \in Statuses \ {429})
       => /\ bpc = "done"
          /\ resp = sent[Len(sent)]
          /\ err = "nil"
          /\ Len(sent) <= maxRetries

\* C18 witness: a server error that follows two 429 responses has been
\* returned as the response.
C18_Witness ==
    /\ bpc = "done"
    /\ sent = <<429, 429, 500>>
    /\ resp = 500
    /\ err = "nil"

(***************************************************************************)
(* SpecJiraCreate: one call of Client.CreateIssue (internal/jira/client.go,*)
(* src/unnamed/part_016:497-622).  Of the request only the optional custom *)
(* fields matter to the control flow; the other fields are always sent.    *)
(***************************************************************************)
\* part_016:585, in the order of the loop; part_016:544-560 sets them.
CustomFields ==
    {"customfield_10014", "customfield_10016", "customfield_10020", "customfield_11887"}

\* The keys an errors map of the server is drawn over: the custom fields
\* and one field that is not optional.
ErrorKeys == CustomFields \cup {"summary"}

\* An errors map gives every key "absent" (no such key), "empty" (the key
\* with the message "") or "text" (the key with a message).
ErrorMaps == [ErrorKeys -> {"absent", "empty", "text"}]
NoErrors == [k \in ErrorKeys |-> "absent"]

\* What attempt(fields) can give: an error of makeRequest, or a response
\* with a status and a body.  The body of a 201 decodes as an issue or not;
\* the body of a 400 holds an errors map.
CreateResponses ==
    {[status |-> 0, decodes |-> FALSE, errors |-> NoErrors]}
    \cup {[status |-> 201, decodes |-> d, errors |-> NoErrors] : d \in BOOLEAN}
    \cup {[status |-> 500, decodes |-> FALSE, errors |-> NoErrors]}
    \cup {[status |-> 400, decodes |-> FALSE, errors |-> e] : e \in ErrorMaps}

\* What the second attempt can give: its errors map is only printed, so one
\* map that names every key stands for all of them.
RetryResponses ==
    {r \in CreateResponses :
        r.errors \in {NoErrors, [k \in ErrorKeys |-> "text"]}}

\* Fault variant of Removed: the test that the field is in the request is
\* missing.
RemovedWithoutPresenceTest(errors, f) ==
    {cf \in CustomFields : errors[cf] = "text"}

\* part_016:584-592: the fields the loop deletes from `fields`.
Removed(errors, f) ==
    {cf \in CustomFields : errors[cf] = "text" /\ cf \in f}

JiraCreateInit ==
    /\ opts \in SUBSET CustomFields
    /\ fields = {}
    /\ cpc = "build"
    /\ posts = <<>>
    /\ responses = <<>>
    /\ created = "running"
    /\ JiraSearchIdle
    /\ BitbucketIdle
    /\ ScanIdle
    /\ EvalIdle

\* part_016:498-560: the fields map is built from opts.
BuildFields ==
    /\ cpc = "build"
    /\ fields' = opts
    /\ cpc' = "first"
    /\ UNCHANGED <<opts, posts, responses, created, jsvars, bvars, svars, evars>>

\* part_016:572-593 and 612-621: the first attempt and what follows it, up
\* to the decision to try again.
FirstAttempt ==
    /\ cpc = "first"
    /\ \E r \in CreateResponses :
          LET removed == IF r.status = 400 THEN Removed(r.errors, fields) ELSE {}
          IN  /\ posts' = Append(posts, fields)
              /\ responses' = Append(responses, r)
              /\ IF r.status = 0
                 THEN /\ created' = "failed to make request" /\ cpc' = "done"
                      /\ UNCHANGED fields
                 ELSE IF removed # {}
                 THEN /\ fields' = fields \ removed
                      /\ cpc' = "second"
                      /\ UNCHANGED created
                 ELSE /\ created' = IF r.status # 201 THEN "API request failed"
                                    ELSE IF ~r.decodes THEN "failed to decode response"
                                    ELSE "issue"
                      /\ cpc' = "done"
                      /\ UNCHANGED fields
    /\ UNCHANGED <<opts, jsvars, bvars, svars, evars>>

\* part_016:594-608: the second attempt.
SecondAttempt ==
    /\ cpc = "second"
    /\ \E r \in RetryResponses :
          /\ posts' = Append(posts, fields)
          /\ responses' = Append(responses, r)
          /\ created' = IF r.status = 0 THEN "failed to make request"
                        ELSE IF r.status # 201 THEN "API request failed (after retry)"
                        ELSE IF ~r.decodes THEN "failed to decode response"
                        ELSE "issue"
          /\ cpc' = "done"
    /\ UNCHANGED <<opts, fields, jsvars, bvars, svars, evars>>

JiraCreateNext ==
    \/ BuildFields
    \/ FirstAttempt
    \/ SecondAttempt

SpecJiraCreate == JiraCreateInit /\ [][JiraCreateNext]_vars

(***************************************************************************)
(* Properties of CreateIssue (SpecJiraCreate).                             *)
(***************************************************************************)
\* The custom fields the errors map of the first response names.
Named == {cf \in CustomFields : responses[1].errors[cf] # "absent"}

\* The custom fields it names with a message that is not empty.
NamedWithMessage == {cf \in CustomFields : responses[1].errors[cf] = "text"}

fallbackCap == 500

Min(a, b) == IF a < b THEN a ELSE b

\* The issues s+1 .. s+n.
IssuesFrom(s, n) == [k \in 1..n |-> s + k]

\* The sizes of the page a request for m issues from offset s can get.  A
\* request without maxResults (m = 0) gets the server's own page size.
PageSizes(s, m) ==
    IF s >= total THEN {0}
    ELSE 1..(IF m > 0 THEN Min(m, total - s) ELSE total - s)

\* The SearchResponse decoded from a page of n issues from offset s.
SearchResponse(s, m, n) ==
    [Issues |-> IssuesFrom(s, n),
     StartAt |-> IF metadata THEN s ELSE 0,
     MaxResults |-> IF metadata THEN m ELSE 0,
     Total |-> IF metadata THEN total ELSE 0]

\* The responses a request for m issues from offset s can get.  A server
\* that pages by token answers with a page of any size, empty pages
\* included, with or without a token for what follows, and sets isLast as
\* it likes.
Responses(s, m) ==
    IF paging = "token"
    THEN {[Issues |-> IssuesFrom(s, n), StartAt |-> 0, MaxResults |-> 0, Total |-> 0,
           NextPageToken |-> t, IsLast |-> l] :
            n \in 0..(IF s >= total THEN 0 ELSE Min(m, total - s)),
            t \in {NoToken, s},
            l \in BOOLEAN}
         \cup
         {[Issues |-> IssuesFrom(s, n), StartAt |-> 0, MaxResults |-> 0, Total |-> 0,
           NextPageToken |-> s + n, IsLast |-> l] :
            n \in 0..(IF s >= total THEN 0 ELSE Min(m, total - s)),
            l \in BOOLEAN}
    ELSE {[Issues |-> r.Issues, StartAt |-> r.StartAt, MaxResults |-> r.MaxResults,
           Total |-> r.Total, NextPageToken |-> NoToken, IsLast |-> FALSE] :
            r \in {SearchResponse(s, m, n) : n \in PageSizes(s, m)}}

\* Fault variant of AppendUpTo: the whole page is appended.
AppendWholePage(coll, page) == coll \o page

\* part_016:234-246: the issues of a page are appended up to maxResults.
AppendUpTo(coll, page) ==
    LET needed == maxResults - Len(coll)
    IN  IF Len(page) <= needed THEN coll \o page
        ELSE coll \o SubSeq(page, 1, needed)

JiraSearchInit ==
    /\ maxResults \in 0..MaxResultsArg
    /\ startAtArg \in 0..MaxStartAtArg
    /\ total \in 0..MaxTotal
    /\ \/ metadata \in BOOLEAN /\ paging = "startAt"
       \/ metadata = FALSE /\ paging = "token"
    /\ spc = "start"
    /\ startAt = 0
    /\ token = NoToken
    /\ isLast = FALSE
    /\ searchCollected = <<>>
    /\ requests = <<>>
    /\ pages = <<>>
    /\ searched = "running"
    /\ JiraCreateIdle
    /\ BitbucketIdle
    /\ ScanIdle
    /\ EvalIdle

\* part_016:138-163 and 203-205: the query is built and the mode chosen.
SearchStart ==
    /\ spc = "start"
    /\ spc' = IF maxResults <= 0 THEN "single" ELSE "page"
    /\ startAt' = startAtArg
    /\ UNCHANGED <<maxResults, startAtArg, total, metadata, paging, token, isLast,
                   searchCollected, requests, pages, searched, jcvars, bvars,
                   svars, evars>>

\* part_016:163-199: maxResults <= 0, one request without paging
\* parameters.
SearchSingle ==
    /\ spc = "single"
    /\ requests' = Append(requests, [startAt |-> 0, maxResults |-> 0, pageToken |-> NoToken])
    /\ \/ /\ searched' = "API request failed"
          /\ UNCHANGED <<searchCollected, pages>>
       \/ \E searchResp \in Responses(0, 0) :
             /\ searchCollected' = searchResp.Issues
             /\ pages' = Append(pages, Len(searchResp.Issues))
             /\ searched' = "issues"
    /\ spc' = "done"
    /\ UNCHANGED <<maxResults, startAtArg, total, metadata, paging, token, isLast,
                   startAt, jcvars, bvars, svars, evars>>

\* part_016:211-248 and 297-361: one iteration of the paging loop, up to
\* the first request by token or the fallback request.
SearchPage ==
    /\ spc = "page"
    /\ requests' = Append(requests, [startAt |-> startAt, maxResults |-> maxResults,
                                     pageToken |-> NoToken])
    /\ \/ /\ searched' = "API request failed"
          /\ spc' = "done"
          /\ UNCHANGED <<searchCollected, pages, startAt, token, isLast>>
       \/ \E searchResp \in Responses(startAt, maxResults) :
             LET nReturned == Len(searchResp.Issues)
                 full == nReturned > 0 /\ maxResults - Len(searchCollected) <= 0
                 coll == IF nReturned > 0 /\ ~full
                         THEN AppendUpTo(searchCollected, searchResp.Issues)
                         ELSE searchCollected
             IN  /\ pages' = Append(pages, nReturned)
                 /\ searchCollected' = coll
                 /\ IF full
                    THEN /\ spc' = "done" /\ searched' = "issues"
                         /\ UNCHANGED <<startAt, token, isLast>>
                    ELSE IF searchResp.NextPageToken # NoToken
                    THEN /\ spc' = "token"
                         /\ token' = searchResp.NextPageToken
                         /\ isLast' = searchResp.IsLast
                         /\ UNCHANGED <<searched, startAt>>
                    ELSE IF (searchResp.Total = 0 \/ searchResp.MaxResults = 0)
                            /\ startAtArg > 0
                    THEN IF startAtArg + maxResults > fallbackCap
                         THEN /\ spc' = "done"
                              /\ searched' = "requested page would require a large fallback"
                              /\ UNCHANGED <<startAt, token, isLast>>
                         ELSE /\ spc' = "fallback"
                              /\ UNCHANGED <<searched, startAt, token, isLast>>
                    ELSE IF searchResp.StartAt + nReturned >= searchResp.Total
                    THEN /\ spc' = "done" /\ searched' = "issues"
                         /\ UNCHANGED <<startAt, token, isLast>>
                    ELSE IF nReturned = 0
                    THEN /\ spc' = "done" /\ searched' = "issues"
                         /\ UNCHANGED <<startAt, token, isLast>>
                    ELSE /\ startAt' = searchResp.StartAt + nReturned
                         /\ UNCHANGED <<token, isLast>>
                         /\ IF Len(coll) >= maxResults
                            THEN spc' = "done" /\ searched' = "issues"
                            ELSE spc' = "page" /\ UNCHANGED searched
    /\ UNCHANGED <<maxResults, startAtArg, total, metadata, paging,
                   jcvars, bvars, svars, evars>>

\* part_016:251-289: the test of the token loop holds and its body runs
\* once.
SearchTokenPage ==
    /\ spc = "token"
    /\ token # NoToken /\ ~isLast /\ Len(searchCollected) < maxResults
    /\ Len(requests) < MaxRequests
    /\ requests' = Append(requests, [startAt |-> NoToken, maxResults |-> maxResults,
                                     pageToken |-> token])
    /\ \/ /\ searched' = "API request failed"
          /\ spc' = "done"
          /\ UNCHANGED <<searchCollected, pages, token, isLast>>
       \/ \E tr \in Responses(token, maxResults) :
             /\ pages' = Append(pages, Len(tr.Issues))
             /\ searchCollected' = IF Len(tr.Issues) > 0
                                   THEN AppendUpTo(searchCollected, tr.Issues)
                                   ELSE searchCollected
             /\ token' = tr.NextPageToken
             /\ isLast' = tr.IsLast
             /\ UNCHANGED <<spc, searched>>
    /\ UNCHANGED <<maxResults, startAtArg, total, metadata, paging, startAt,
                   jcvars, bvars, svars, evars>>

\* part_016:251 and 290-294: the test of the token loop fails and what was
\* collected is returned.
SearchTokenReturn ==
    /\ spc = "token"
    /\ ~(token # NoToken /\ ~isLast /\ Len(searchCollected) < maxResults)
    /\ spc' = "done"
    /\ searched' = "issues"
    /\ UNCHANGED <<maxResults, startAtArg, total, metadata, paging, token, isLast,
                   startAt, searchCollected, requests, pages,
                   jcvars, bvars, svars, evars>>

\* part_016:304-346: the fallback request for startAtArg + perPage issues
\* from offset 0, sliced on the client.
SearchFallback ==
    /\ spc = "fallback"
    /\ LET fallbackSize == startAtArg + maxResults
       IN  /\ requests' = Append(requests, [startAt |-> 0, maxResults |-> fallbackSize,
                                            pageToken |-> NoToken])
           /\ \/ /\ searched' = "API request failed"
                 /\ UNCHANGED <<searchCollected, pages>>
              \/ \E fbSearchResp \in Responses(0, fallbackSize) :
                    LET n == Len(fbSearchResp.Issues)
                        start == startAtArg
                        end == Min(startAtArg + maxResults, Len(fbSearchResp.Issues))
                    IN  /\ pages' = Append(pages, n)
                        /\ IF start >= Len(fbSearchResp.Issues)
                           THEN /\ searched' = "fallback response contained too few issues"
                                /\ UNCHANGED searchCollected
                           ELSE /\ searchCollected' = SubSeq(fbSearchResp.Issues, start + 1, end)
                                /\ searched' = "issues"
    /\ spc' = "done"
    /\ UNCHANGED <<maxResults, startAtArg, total, metadata, paging, token, isLast,
                   startAt, jcvars, bvars, svars, evars>>

JiraSearchNext ==
    \/ SearchStart
    \/ SearchSingle
    \/ SearchPage
    \/ SearchTokenPage
    \/ SearchTokenReturn
    \/ SearchFallback

SpecJiraSearch == JiraSearchInit /\ [][JiraSearchNext]_vars

(***************************************************************************)
(* Properties of Search (SpecJiraSearch).                                  *)
(***************************************************************************)
RECURSIVE SumUpTo(_, _)
SumUpTo(seq, n) == IF n = 0 THEN 0 ELSE seq[n] + SumUpTo(seq, n - 1)

\* The issues the call is to return: the first min(maxResults, total -
\* startAtArg) from startAtArg, none when that number is not positive.
Window ==
    LET n == Min(maxResults, total - startAtArg)
    IN  IssuesFrom(startAtArg, IF n < 0 THEN 0 ELSE n)

\* Every request asked for the offset startAtArg plus the number of issues
\* the pages before it held.
SuccessivePages ==
    \A k \in 1..Len(requests) :
        requests[k].startAt = startAtArg + SumUpTo(pages, k - 1)

\* Every page the server has returned held at least one issue.
PositivePages == \A k \in 1..Len(pages) : pages[k] > 0

\* C20: for maxResults > 0, against a server that reports its paging
\* metadata, never fails and returns pages of positive size, every request
\* asks for the offset startAtArg plus the number of issues returned so
\* far, and a call that has returned gives no error and exactly the first
\* min(maxResults, total - startAtArg) issues from startAtArg, in the order
\* of the server.
C20_ExactWindow ==
    (maxResults > 0 /\ metadata /\ paging = "startAt" /\ PositivePages
       /\ searched # "API request failed")
    => /\ SuccessivePages
       /\ spc = "done" => searched = "issues" /\ searchCollected = Window

\* A call from offset 1 for 3 of 5 issues, served in two pages of 2, the
\* second of which is cut: it returns the issues 2, 3 and 4.
C20_Witness ==
    /\ spc = "done" /\ metadata /\ paging = "startAt" /\ searched = "issues"
    /\ startAtArg = 1 /\ maxResults = 3 /\ total = 5
    /\ pages = <<2, 2>>
    /\ searchCollected = <<2, 3, 4>>

\* The same holds with empty pages when the query matches an issue or the
\* call starts at offset 0.
SearchWindowWhenNotEmpty ==
    (maxResults > 0 /\ metadata /\ paging = "startAt"
       /\ searched # "API request failed"
       /\ (total > 0 \/ startAtArg = 0))
    => /\ SuccessivePages
       /\ spc = "done" => searched = "issues" /\ searchCollected = Window

\* A query that matches nothing, asked from an offset above 0, is answered
\* with an empty page and total 0: the call makes the fallback request of
\* line 308 and returns the error of line 336.
EmptyQueryFromOffset ==
    (spc = "done" /\ maxResults > 0 /\ metadata /\ total = 0
       /\ startAtArg > 0 /\ searched # "API request failed")
    => /\ searched = "fallback response contained too few issues"
       /\ Len(requests) = 2

\* C27: with maxResults > 0, a page of zero issues is the last request of
\* the call, and so the call makes no more requests than the issues it was
\* asked for, and one.
C27_EmptyPageEndsPaging ==
    maxResults > 0 =>
        /\ \A k \in 1..Len(pages) : pages[k] = 0 => Len(requests) = k
        /\ Len(requests) <= maxResults + 1

\* The first loop alone: when the server sends no token and the fallback of
\* lines 299-346 is not taken, an empty page is the last request.
EmptyPageEndsStartAtPaging ==
    (maxResults > 0 /\ paging = "startAt" /\ (startAtArg = 0 \/ (metadata /\ total > 0))) =>
        /\ \A k \in 1..Len(pages) : pages[k] = 0 => Len(requests) = k
        /\ Len(requests) <= maxResults + 1

\* The token loop after an empty page: the request that follows it.
TokenLoopStopsOnEmptyPage ==
    (paging = "token" /\ maxResults > 0) =>
        \A k \in 1..Len(pages) : pages[k] = 0 => Len(requests) = k

====
